---- MODULE Spec2Model ----
(***************************************************************************)
(* SEM-Karifa2022 LED ornament firmware: the animation virtual machine     *)
(* (fw_py32/Src/animation.c) and the persistent settings store             *)
(* (firmware/src/persist.c, firmware/src/util.c).                          *)
(***************************************************************************)
EXTENDS Integers, Sequences, FiniteSets, TLC

(***************************************************************************)
(* Fixed-width integer helpers (types.h: U8, U16, I8).                     *)
(***************************************************************************)
U8(x) == x % 256

U16(x) == x % 65536

I8(x) == IF x % 256 < 128 THEN x % 256 ELSE (x % 256) - 256

HasBit(o, bit) == (o \div bit) % 2 = 1

\* C arrays are sequences: element i of the C array a is At(a, i).
At(a, i) == a[i + 1]

Put(a, i, v) == [a EXCEPT ![i + 1] = v]

(***************************************************************************)
(* Program constants.                                                      *)
(***************************************************************************)
\* led.h and rgbled.h are not part of the tree at hand: the sizes are those of the
\* brightness initialisers of the instruction tables (12 and 3 bytes per instruction).
LEDS_NUM == 12

NUM_RGBLED_COLORS == 3

RIGHT_LEDS_START == 6

\* led.c: levels of the soft PWM, and the pins LED0..LED5 shared by the two sides.
PWM_LEVELS == 16

NUM_LED_PINS == 6

\* fw_py32's animation.h is not part of the tree at hand: gasAnimations[ NUM_ANIMATIONS ]
\* has 18 initialisers.
NUM_ANIMATIONS == 18

\* Initial value of u8LastState / u8LastStateRGB (0xFFu): no instruction executed yet.
NO_STATE == 255

\* E_ANIMATION_OPCODE
LOAD == 0

ADD == 1

RSHIFT == 2

LSHIFT == 4

DIV == 16

USOURCE == 32

DSOURCE == 64

REPEAT == 128

(***************************************************************************)
(* The instruction tables (S_ANIMATION_INSTRUCTION_NORMAL / _RGB) and the  *)
(* table of animations.  Brightness bytes are stored as U8: an initialiser *)
(* of -1 is the byte 255.                                                  *)
(***************************************************************************)
Instr(t, b, o, n) ==
  [u16TimingMs |-> t, au8Brightness |-> b, u8AnimationOpcode |-> o,
   u8AnimationOperand |-> n]

Animation(normal, rgb) ==
  [u8AnimationLengthNormal |-> Len(normal), psInstructionsNormal |-> normal,
   u8AnimationLengthRGB |-> Len(rgb), psInstructionsRGB |-> rgb]

gasRetroVersion ==
  <<
    Instr(133, <<15, 0, 15, 0, 0, 15, 15, 0, 15, 0, 0, 15>>, 0, 0),
    Instr(133, <<0, 15, 0, 15, 15, 0, 0, 15, 0, 15, 15, 0>>, 0, 0),
    Instr(133, <<15, 0, 0, 0, 0, 0, 15, 0, 0, 0, 0, 0>>, 0, 0),
    Instr(133, <<0, 15, 0, 15, 15, 0, 0, 15, 0, 15, 15, 0>>, 0, 0),
    Instr(133, <<15, 0, 0, 0, 0, 0, 15, 0, 0, 0, 0, 0>>, 0, 0),
    Instr(133, <<0, 0, 0, 15, 0, 0, 0, 0, 0, 15, 0, 0>>, 0, 0),
    Instr(133, <<15, 0, 15, 0, 0, 15, 15, 0, 0, 15, 0, 15>>, 0, 0),
    Instr(133, <<0, 0, 0, 15, 0, 0, 0, 0, 0, 15, 0, 0>>, 0, 0)
  >>

gasRetroVersionRGB ==
  <<
    Instr(133, <<15, 0, 0>>, 0, 0),
    Instr(665, <<0, 0, 0>>, 0, 0),
    Instr(133, <<15, 0, 0>>, 0, 0),
    Instr(133, <<0, 0, 0>>, 0, 0)
  >>

gasSoftFlashing ==
  <<
    Instr(125, <<0, 0, 0, 0, 0, 0, 0, 0, 0, 0, 0, 0>>, 0, 0),
    Instr(125, <<1, 1, 1, 1, 1, 1, 1, 1, 1, 1, 1, 1>>, 129, 14),
    Instr(125, <<15, 15, 15, 15, 15, 15, 15, 15, 15, 15, 15, 15>>, 0, 0),
    Instr(125, <<255, 255, 255, 255, 255, 255, 255, 255, 255, 255, 255, 255>>, 129, 14)
  >>

gasSoftFlashingRGB ==
  <<
    Instr(125, <<0, 0, 0>>, 0, 0),
    Instr(125, <<1, 0, 0>>, 129, 14),
    Instr(125, <<15, 0, 0>>, 0, 0),
    Instr(125, <<255, 0, 0>>, 129, 14)
  >>

gasFadeRing ==
  <<
    Instr(40, <<15, 1, 15, 1, 15, 1, 1, 15, 1, 15, 1, 15>>, 0, 0),
    Instr(40, <<255, 1, 255, 1, 255, 1, 1, 255, 1, 255, 1, 255>>, 129, 13),
    Instr(40, <<1, 255, 1, 255, 1, 255, 255, 1, 255, 1, 255, 1>>, 129, 13)
  >>

gasFadeRingRGB ==
  <<
    Instr(40, <<15, 1, 0>>, 0, 0),
    Instr(40, <<255, 0, 0>>, 129, 13),
    Instr(40, <<1, 0, 0>>, 129, 13)
  >>

gasStarLaunch ==
  <<
    Instr(400, <<0, 0, 0, 0, 0, 0, 0, 0, 0, 0, 0, 0>>, 0, 0),
    Instr(200, <<5, 0, 0, 0, 0, 0, 0, 0, 0, 0, 0, 0>>, 0, 0),
    Instr(200, <<5, 0, 0, 0, 0, 0, 0, 0, 0, 0, 0, 5>>, 160, 18),
    Instr(200, <<15, 15, 15, 15, 15, 15, 10, 15, 15, 15, 15, 15>>, 0, 0),
    Instr(200, <<0, 0, 0, 0, 0, 251, 251, 0, 0, 0, 0, 0>>, 192, 16)
  >>

gasStarLaunchRGB ==
  <<
    Instr(4000, <<0, 0, 0>>, 0, 0),
    Instr(800, <<15, 15, 0>>, 0, 0),
    Instr(200, <<0, 255, 0>>, 129, 9),
    Instr(200, <<253, 255, 0>>, 129, 4),
    Instr(200, <<0, 0, 0>>, 0, 0)
  >>

gasGenericFlasher ==
  <<
    Instr(500, <<15, 15, 15, 15, 15, 15, 15, 15, 15, 15, 15, 15>>, 0, 0),
    Instr(500, <<0, 0, 0, 0, 0, 0, 0, 0, 0, 0, 0, 0>>, 0, 0)
  >>

gasGenericFlasherRGB ==
  <<
    Instr(500, <<7, 7, 7>>, 0, 0),
    Instr(500, <<0, 0, 0>>, 0, 0)
  >>

gasKITT ==
  <<
    Instr(200, <<0, 0, 0, 0, 0, 0, 0, 0, 0, 0, 0, 0>>, 0, 0),
    Instr(100, <<5, 0, 0, 0, 0, 0, 0, 0, 0, 0, 0, 5>>, 0, 0),
    Instr(100, <<10, 5, 0, 0, 0, 0, 0, 0, 0, 0, 5, 10>>, 0, 0),
    Instr(100, <<15, 10, 5, 0, 0, 0, 0, 0, 0, 5, 10, 15>>, 0, 0),
    Instr(100, <<10, 15, 10, 5, 0, 0, 0, 0, 5, 10, 15, 10>>, 0, 0),
    Instr(100, <<5, 10, 15, 10, 5, 0, 0, 5, 10, 15, 10, 5>>, 0, 0),
    Instr(100, <<0, 5, 10, 15, 10, 5, 5, 10, 15, 10, 5, 0>>, 0, 0),
    Instr(100, <<0, 0, 5, 10, 15, 10, 10, 15, 10, 5, 0, 0>>, 0, 0),
    Instr(100, <<0, 0, 0, 5, 10, 15, 15, 10, 5, 0, 0, 0>>, 0, 0),
    Instr(100, <<0, 0, 0, 0, 5, 10, 10, 5, 0, 0, 0, 0>>, 0, 0),
    Instr(100, <<0, 0, 0, 0, 0, 5, 5, 0, 0, 0, 0, 0>>, 0, 0),
    Instr(100, <<0, 0, 0, 0, 0, 0, 0, 0, 0, 0, 0, 0>>, 0, 0),
    Instr(100, <<0, 0, 0, 0, 0, 5, 5, 0, 0, 0, 0, 0>>, 0, 0),
    Instr(100, <<0, 0, 0, 0, 5, 10, 10, 5, 0, 0, 0, 0>>, 0, 0),
    Instr(100, <<0, 0, 0, 5, 10, 15, 15, 10, 5, 0, 0, 0>>, 0, 0),
    Instr(100, <<0, 0, 5, 10, 15, 10, 10, 15, 10, 5, 0, 0>>, 0, 0),
    Instr(100, <<0, 5, 10, 15, 10, 5, 5, 10, 15, 10, 5, 0>>, 0, 0),
    Instr(100, <<5, 10, 15, 10, 5, 0, 0, 5, 10, 15, 10, 5>>, 0, 0),
    Instr(100, <<10, 15, 10, 5, 0, 0, 0, 0, 5, 10, 15, 10>>, 0, 0),
    Instr(100, <<15, 10, 5, 0, 0, 0, 0, 0, 0, 5, 10, 15>>, 0, 0),
    Instr(100, <<10, 5, 0, 0, 0, 0, 0, 0, 0, 0, 5, 10>>, 0, 0),
    Instr(100, <<5, 0, 0, 0, 0, 0, 0, 0, 0, 0, 0, 5>>, 0, 0)
  >>

gasKITTRGB ==
  <<
    Instr(800, <<0, 0, 0>>, 0, 0),
    Instr(100, <<5, 0, 0>>, 129, 3),
    Instr(100, <<251, 0, 0>>, 129, 3),
    Instr(1300, <<0, 0, 0>>, 0, 0)
  >>

gasDisco ==
  <<
    Instr(40, <<0, 15, 0, 15, 0, 15, 0, 15, 0, 15, 0, 15>>, 0, 0),
    Instr(40, <<1, 2, 1, 2, 1, 2, 1, 2, 1, 2, 1, 2>>, 144, 3),
    Instr(100, <<0, 0, 0, 0, 0, 0, 0, 0, 0, 0, 0, 0>>, 0, 0),
    Instr(40, <<15, 0, 15, 0, 15, 0, 15, 0, 15, 0, 15, 0>>, 0, 0),
    Instr(40, <<2, 1, 2, 1, 2, 1, 2, 1, 2, 1, 2, 1>>, 144, 3),
    Instr(100, <<0, 0, 0, 0, 0, 0, 0, 0, 0, 0, 0, 0>>, 0, 0)
  >>

gasDiscoRGB ==
  <<
    Instr(40, <<15, 0, 15>>, 0, 0),
    Instr(40, <<2, 1, 2>>, 144, 3),
    Instr(100, <<0, 0, 0>>, 0, 0),
    Instr(40, <<0, 15, 0>>, 0, 0),
    Instr(40, <<2, 1, 2>>, 144, 3),
    Instr(100, <<0, 0, 0>>, 0, 0)
  >>

gasPseudoRandomFade ==
  <<
    Instr(66, <<0, 0, 0, 0, 0, 0, 0, 0, 0, 0, 0, 0>>, 0, 0),
    Instr(66, <<0, 0, 0, 0, 0, 0, 0, 1, 0, 0, 0, 0>>, 129, 14),
    Instr(66, <<0, 0, 1, 0, 0, 0, 0, 255, 0, 0, 0, 0>>, 129, 14),
    Instr(66, <<0, 0, 255, 0, 0, 0, 0, 0, 0, 0, 1, 0>>, 129, 14),
    Instr(66, <<1, 0, 0, 0, 0, 0, 0, 0, 0, 0, 255, 0>>, 129, 14),
    Instr(66, <<255, 0, 0, 0, 0, 1, 0, 0, 0, 0, 0, 0>>, 129, 14),
    Instr(66, <<0, 0, 0, 0, 0, 255, 0, 1, 0, 0, 0, 0>>, 129, 14),
    Instr(66, <<0, 0, 0, 0, 0, 0, 0, 255, 0, 0, 0, 1>>, 129, 14),
    Instr(66, <<0, 1, 0, 0, 0, 0, 0, 0, 0, 0, 0, 255>>, 129, 14),
    Instr(66, <<0, 255, 0, 1, 0, 0, 0, 0, 0, 0, 0, 0>>, 129, 14),
    Instr(66, <<0, 0, 0, 255, 0, 0, 1, 0, 0, 0, 0, 0>>, 129, 14),
    Instr(66, <<0, 0, 0, 0, 0, 0, 255, 0, 0, 0, 0, 0>>, 129, 14),
    Instr(66, <<0, 0, 0, 0, 0, 0, 0, 0, 0, 1, 0, 0>>, 129, 14),
    Instr(66, <<0, 0, 0, 0, 1, 0, 0, 0, 0, 255, 0, 0>>, 129, 14),
    Instr(66, <<0, 0, 0, 0, 255, 0, 0, 0, 0, 0, 0, 0>>, 129, 14)
  >>

gasPseudoRandomFadeRGB ==
  <<
    Instr(9966, <<0, 0, 0>>, 0, 0),
    Instr(66, <<1, 0, 0>>, 129, 14),
    Instr(66, <<255, 0, 0>>, 129, 14),
    Instr(1980, <<0, 0, 0>>, 0, 0)
  >>

gasCrissCross ==
  <<
    Instr(350, <<15, 0, 0, 0, 0, 0, 0, 0, 0, 0, 0, 0>>, 0, 0),
    Instr(350, <<0, 0, 15, 0, 0, 0, 0, 0, 0, 0, 0, 0>>, 0, 0),
    Instr(350, <<0, 0, 0, 0, 0, 0, 0, 0, 15, 0, 0, 0>>, 0, 0),
    Instr(350, <<0, 0, 0, 0, 15, 0, 0, 0, 0, 0, 0, 0>>, 0, 0),
    Instr(350, <<0, 0, 0, 0, 0, 0, 15, 0, 0, 0, 0, 0>>, 0, 0),
    Instr(350, <<0, 0, 0, 0, 0, 15, 0, 0, 0, 0, 0, 0>>, 0, 0),
    Instr(350, <<0, 0, 0, 0, 0, 0, 0, 15, 0, 0, 0, 0>>, 0, 0),
    Instr(350, <<0, 0, 0, 15, 0, 0, 0, 0, 0, 0, 0, 0>>, 0, 0),
    Instr(350, <<0, 0, 0, 0, 0, 0, 0, 0, 0, 15, 0, 0>>, 0, 0),
    Instr(350, <<0, 0, 0, 0, 0, 0, 0, 0, 0, 0, 0, 15>>, 0, 0),
    Instr(350, <<0, 15, 0, 0, 0, 0, 0, 0, 0, 0, 0, 0>>, 0, 0),
    Instr(350, <<0, 15, 0, 0, 0, 0, 0, 0, 0, 0, 15, 0>>, 0, 0)
  >>

gasCrissCrossRGB ==
  <<
    Instr(1050, <<0, 15, 15>>, 0, 0),
    Instr(1050, <<15, 0, 0>>, 0, 0),
    Instr(1050, <<2, 10, 10>>, 0, 0),
    Instr(1050, <<15, 15, 0>>, 0, 0)
  >>

gasFlicker ==
  <<
    Instr(200, <<0, 0, 0, 0, 0, 0, 0, 0, 15, 0, 0, 0>>, 0, 0),
    Instr(200, <<0, 0, 15, 0, 0, 0, 0, 0, 0, 0, 0, 0>>, 0, 0),
    Instr(200, <<0, 0, 0, 0, 0, 0, 0, 0, 0, 0, 15, 0>>, 0, 0),
    Instr(200, <<0, 0, 0, 0, 0, 15, 0, 0, 0, 0, 0, 0>>, 0, 0),
    Instr(200, <<15, 0, 0, 0, 0, 0, 0, 0, 0, 0, 0, 0>>, 0, 0),
    Instr(200, <<0, 15, 0, 0, 0, 0, 0, 0, 0, 0, 0, 0>>, 0, 0),
    Instr(200, <<0, 0, 0, 0, 0, 0, 0, 0, 0, 0, 0, 15>>, 0, 0),
    Instr(200, <<0, 0, 0, 0, 0, 0, 0, 15, 0, 0, 0, 0>>, 0, 0),
    Instr(200, <<0, 0, 0, 15, 0, 0, 0, 0, 0, 0, 0, 0>>, 0, 0),
    Instr(200, <<0, 0, 0, 0, 0, 0, 0, 0, 0, 15, 0, 0>>, 0, 0)
  >>

gasFlickerRGB ==
  <<
    Instr(400, <<15, 0, 0>>, 0, 0),
    Instr(100, <<15, 15, 0>>, 0, 0),
    Instr(800, <<15, 0, 0>>, 0, 0),
    Instr(100, <<15, 15, 0>>, 0, 0),
    Instr(500, <<15, 0, 0>>, 0, 0),
    Instr(100, <<15, 15, 0>>, 0, 0)
  >>

gasPingpong ==
  <<
    Instr(175, <<15, 0, 0, 0, 0, 0, 0, 0, 0, 0, 0, 0>>, 0, 0),
    Instr(175, <<0, 0, 0, 0, 0, 0, 0, 0, 0, 0, 0, 0>>, 130, 4),
    Instr(175, <<0, 0, 0, 0, 0, 0, 0, 0, 0, 0, 0, 0>>, 0, 0),
    Instr(175, <<0, 0, 0, 0, 0, 0, 15, 0, 0, 0, 0, 0>>, 0, 0),
    Instr(175, <<0, 0, 0, 0, 0, 0, 0, 0, 0, 0, 0, 0>>, 130, 4),
    Instr(175, <<0, 0, 0, 0, 0, 0, 0, 0, 0, 0, 0, 0>>, 0, 0),
    Instr(175, <<0, 0, 0, 0, 0, 0, 0, 0, 0, 0, 0, 15>>, 0, 0),
    Instr(175, <<0, 0, 0, 0, 0, 0, 0, 0, 0, 0, 0, 0>>, 132, 4),
    Instr(175, <<0, 0, 0, 0, 0, 0, 0, 0, 0, 0, 0, 0>>, 0, 0),
    Instr(175, <<0, 0, 0, 0, 0, 15, 0, 0, 0, 0, 0, 0>>, 0, 0),
    Instr(175, <<0, 0, 0, 0, 0, 0, 0, 0, 0, 0, 0, 0>>, 132, 4),
    Instr(175, <<0, 0, 0, 0, 0, 0, 0, 0, 0, 0, 0, 0>>, 0, 0)
  >>

gasPingpongRGB ==
  <<
    Instr(1050, <<15, 15, 0>>, 0, 0),
    Instr(2450, <<0, 15, 15>>, 0, 0),
    Instr(1400, <<15, 15, 0>>, 0, 0)
  >>

gasSparkle ==
  <<
    Instr(200, <<4, 4, 4, 4, 15, 4, 4, 4, 4, 4, 4, 4>>, 0, 0),
    Instr(200, <<4, 15, 4, 4, 4, 4, 4, 4, 4, 4, 4, 4>>, 0, 0),
    Instr(200, <<4, 4, 4, 4, 4, 4, 15, 4, 4, 4, 4, 4>>, 0, 0),
    Instr(200, <<4, 4, 4, 4, 4, 4, 4, 4, 4, 4, 15, 4>>, 0, 0),
    Instr(200, <<4, 4, 15, 4, 4, 4, 4, 4, 4, 4, 4, 4>>, 0, 0),
    Instr(200, <<15, 4, 4, 4, 4, 4, 4, 4, 4, 4, 4, 4>>, 0, 0),
    Instr(200, <<4, 4, 4, 4, 4, 4, 4, 4, 4, 4, 4, 15>>, 0, 0),
    Instr(200, <<4, 4, 4, 15, 4, 4, 4, 4, 4, 4, 4, 4>>, 0, 0),
    Instr(200, <<4, 4, 4, 4, 4, 4, 4, 4, 4, 15, 4, 4>>, 0, 0),
    Instr(200, <<4, 4, 4, 4, 4, 15, 4, 4, 4, 4, 4, 4>>, 0, 0)
  >>

gasSparkleRGB ==
  <<
    Instr(500, <<15, 0, 0>>, 0, 0),
    Instr(250, <<15, 3, 1>>, 0, 0),
    Instr(250, <<15, 6, 2>>, 0, 0),
    Instr(500, <<15, 10, 3>>, 0, 0),
    Instr(250, <<15, 6, 2>>, 0, 0),
    Instr(250, <<15, 3, 1>>, 0, 0)
  >>

gasSplit2 ==
  <<
    Instr(500, <<15, 0, 15, 0, 15, 0, 15, 0, 15, 0, 15, 0>>, 0, 0),
    Instr(500, <<0, 15, 0, 15, 0, 15, 0, 15, 0, 15, 0, 15>>, 0, 0)
  >>

gasSplit2RGB ==
  <<
    Instr(333, <<15, 0, 15>>, 0, 0),
    Instr(333, <<0, 15, 15>>, 0, 0),
    Instr(334, <<15, 15, 0>>, 0, 0)
  >>

gasStepping ==
  <<
    Instr(350, <<15, 0, 0, 0, 0, 0, 0, 0, 0, 0, 0, 0>>, 0, 0),
    Instr(350, <<0, 0, 0, 0, 0, 0, 0, 0, 0, 0, 0, 0>>, 130, 10)
  >>

gasSteppingRGB ==
  <<
    Instr(350, <<15, 0, 0>>, 0, 0),
    Instr(350, <<15, 6, 0>>, 0, 0),
    Instr(350, <<15, 10, 0>>, 0, 0),
    Instr(350, <<15, 15, 0>>, 0, 0),
    Instr(350, <<0, 15, 0>>, 0, 0),
    Instr(350, <<0, 10, 0>>, 0, 0),
    Instr(350, <<2, 10, 10>>, 0, 0),
    Instr(350, <<0, 15, 15>>, 0, 0),
    Instr(350, <<7, 5, 10>>, 0, 0),
    Instr(350, <<15, 0, 15>>, 0, 0),
    Instr(350, <<15, 12, 12>>, 0, 0)
  >>

gasRace ==
  <<
    Instr(100, <<5, 10, 15, 0, 0, 0, 0, 0, 0, 0, 0, 0>>, 0, 0),
    Instr(100, <<0, 0, 0, 0, 0, 0, 0, 0, 0, 0, 0, 0>>, 130, 2),
    Instr(100, <<0, 0, 0, 0, 5, 10, 0, 0, 0, 0, 0, 0>>, 0, 0),
    Instr(100, <<0, 0, 0, 0, 0, 5, 15, 0, 0, 0, 0, 0>>, 0, 0),
    Instr(100, <<0, 0, 0, 0, 0, 0, 10, 15, 0, 0, 0, 0>>, 0, 0),
    Instr(100, <<0, 0, 0, 0, 0, 0, 5, 10, 15, 0, 0, 0>>, 0, 0),
    Instr(100, <<0, 0, 0, 0, 0, 0, 0, 0, 0, 0, 0, 0>>, 130, 4),
    Instr(70, <<5, 10, 15, 0, 0, 0, 0, 0, 0, 0, 0, 0>>, 0, 0),
    Instr(70, <<0, 0, 0, 0, 0, 0, 0, 0, 0, 0, 0, 0>>, 130, 2),
    Instr(70, <<0, 0, 0, 0, 5, 10, 0, 0, 0, 0, 0, 0>>, 0, 0),
    Instr(70, <<0, 0, 0, 0, 0, 5, 15, 0, 0, 0, 0, 0>>, 0, 0),
    Instr(70, <<0, 0, 0, 0, 0, 0, 10, 15, 0, 0, 0, 0>>, 0, 0),
    Instr(70, <<0, 0, 0, 0, 0, 0, 5, 10, 15, 0, 0, 0>>, 0, 0),
    Instr(70, <<0, 0, 0, 0, 0, 0, 0, 0, 0, 0, 0, 0>>, 130, 4),
    Instr(40, <<5, 10, 15, 0, 0, 0, 0, 0, 0, 0, 0, 0>>, 0, 0),
    Instr(40, <<0, 0, 0, 0, 0, 0, 0, 0, 0, 0, 0, 0>>, 130, 2),
    Instr(40, <<0, 0, 0, 0, 5, 10, 0, 0, 0, 0, 0, 0>>, 0, 0),
    Instr(40, <<0, 0, 0, 0, 0, 5, 15, 0, 0, 0, 0, 0>>, 0, 0),
    Instr(40, <<0, 0, 0, 0, 0, 0, 10, 15, 0, 0, 0, 0>>, 0, 0),
    Instr(40, <<0, 0, 0, 0, 0, 0, 5, 10, 15, 0, 0, 0>>, 0, 0),
    Instr(40, <<0, 0, 0, 0, 0, 0, 0, 0, 0, 0, 0, 0>>, 130, 4)
  >>

gasRaceRGB ==
  <<
    Instr(400, <<0, 0, 0>>, 0, 0),
    Instr(100, <<15, 0, 0>>, 0, 0),
    Instr(100, <<251, 0, 0>>, 129, 1),
    Instr(600, <<0, 0, 0>>, 0, 0),
    Instr(280, <<0, 0, 0>>, 0, 0),
    Instr(70, <<15, 0, 0>>, 0, 0),
    Instr(70, <<251, 0, 0>>, 129, 1),
    Instr(420, <<0, 0, 0>>, 0, 0),
    Instr(160, <<0, 0, 0>>, 0, 0),
    Instr(40, <<15, 0, 0>>, 0, 0),
    Instr(40, <<251, 0, 0>>, 129, 1),
    Instr(240, <<0, 0, 0>>, 0, 0)
  >>

gasYingYang ==
  <<
    Instr(150, <<0, 5, 10, 15, 0, 0, 0, 5, 10, 15, 0, 0>>, 0, 0),
    Instr(150, <<0, 0, 0, 0, 0, 0, 0, 0, 0, 0, 0, 0>>, 130, 4)
  >>

gasYingYangRGB ==
  <<
    Instr(450, <<2, 6, 15>>, 0, 0),
    Instr(450, <<15, 8, 1>>, 0, 0)
  >>

gasIce ==
  <<
    Instr(300, <<0, 0, 0, 0, 0, 15, 0, 0, 0, 0, 0, 0>>, 0, 0),
    Instr(300, <<0, 0, 0, 0, 15, 10, 0, 0, 0, 0, 0, 0>>, 0, 0),
    Instr(300, <<0, 0, 0, 15, 10, 5, 15, 0, 0, 0, 0, 0>>, 0, 0),
    Instr(300, <<0, 0, 15, 10, 5, 0, 10, 15, 0, 0, 0, 0>>, 0, 0),
    Instr(300, <<0, 15, 10, 5, 0, 0, 5, 10, 15, 0, 0, 0>>, 0, 0),
    Instr(300, <<15, 10, 5, 0, 0, 0, 0, 5, 10, 15, 0, 0>>, 0, 0),
    Instr(300, <<15, 5, 0, 0, 0, 0, 0, 0, 5, 10, 15, 0>>, 0, 0),
    Instr(300, <<15, 0, 0, 0, 0, 0, 0, 0, 0, 5, 10, 15>>, 0, 0),
    Instr(300, <<0, 0, 0, 0, 0, 0, 0, 0, 0, 0, 5, 15>>, 0, 0),
    Instr(300, <<0, 0, 0, 0, 0, 0, 0, 0, 0, 0, 0, 15>>, 0, 0),
    Instr(300, <<0, 0, 0, 0, 0, 0, 0, 0, 0, 0, 0, 0>>, 0, 0)
  >>

gasIceRGB ==
  <<
    Instr(194, <<0, 15, 15>>, 0, 0),
    Instr(194, <<0, 255, 0>>, 129, 15)
  >>

gasBlackness ==
  <<
    Instr(65535, <<0, 0, 0, 0, 0, 0, 0, 0, 0, 0, 0, 0>>, 0, 0)
  >>

gasBlacknessRGB ==
  <<
    Instr(65535, <<0, 0, 0>>, 0, 0)
  >>

gasAnimations ==
  <<
    Animation(gasRetroVersion, gasRetroVersionRGB),
    Animation(gasSoftFlashing, gasSoftFlashingRGB),
    Animation(gasDisco, gasDiscoRGB),
    Animation(gasStarLaunch, gasStarLaunchRGB),
    Animation(gasCrissCross, gasCrissCrossRGB),
    Animation(gasGenericFlasher, gasGenericFlasherRGB),
    Animation(gasKITT, gasKITTRGB),
    Animation(gasPingpong, gasPingpongRGB),
    Animation(gasFadeRing, gasFadeRingRGB),
    Animation(gasYingYang, gasYingYangRGB),
    Animation(gasPseudoRandomFade, gasPseudoRandomFadeRGB),
    Animation(gasFlicker, gasFlickerRGB),
    Animation(gasRace, gasRaceRGB),
    Animation(gasSparkle, gasSparkleRGB),
    Animation(gasIce, gasIceRGB),
    Animation(gasSplit2, gasSplit2RGB),
    Animation(gasStepping, gasSteppingRGB),
    Animation(gasStepping, gasSteppingRGB)
  >>
(***************************************************************************)
(* State.                                                                  *)
(***************************************************************************)
VARIABLES
  gu16TimerMS,             \* util.c: free-running millisecond counter
  u8AnimationIndex,        \* gsPersistentData.u8AnimationIndex
  gu16NormalTimer,         \* animation.c globals
  gu16RGBTimer,
  gu16LastCall,
  u8LastState,
  u8RepetitionCounter,
  u8LastStateRGB,
  u8RepetitionCounterRGB,
  gau8LEDBrightness,       \* led.c
  gau8RGBLEDs,             \* rgbled.c
  u8AnimationState,        \* Animation_Cycle locals after the lookup of each channel
  u8AnimationStateRGB,
  u8CatalogIndex,          \* index used by the last gasAnimations[] access
  eeprom,                  \* persist.c: the save arena (see ErasedArena)
  gpsNextSaveSlot,         \* persist.c: address of the next save slot
  op,                      \* last operation and its argument
  arg,
  hist,                    \* bookkeeping about the run (see HistInit)
  pc,                      \* Animation_Cycle: the statement executed next ("idle": not running)
  u8Index,                 \* Animation_Cycle locals of the opcode loops
  u8InnerIndex,
  gu8PWMCounter,           \* led.c: base counter of the soft PWM
  gbitSide,                \* led.c: active side of the panel
  ledPins,                 \* output latches of the pins LED0..LED5
  gu16SynchronizedTimer,   \* firmware/src/animation.c: the single animation clock
  mpc,                     \* main(): the statement of the main loop executed next
  geButtonState,           \* main.c: state of the button debouncer
  gu16ButtonPressTimer,    \* main.c: deadline of the debouncer (ms)
  u8CurrentAnimation,      \* main(): the animation selected by the user
  bPressedLong,            \* fw_py32 main(): a long press was seen
  u32UptimeCounter,        \* fw_py32 main(): milliseconds since boot
  u16LastCall,             \* fw_py32 main(): clock at the last uptime update
  BUTTON_PIN,              \* level of the push button input (0: pressed)
  u16LastPushMs,           \* fw_py32 main(): clock of the next generated push
  bitPairing,              \* firmware/ main(): pairing requests are being sent
  bitGotPartnerID,         \* firmware/ main(): a partner was accepted
  EA,                      \* firmware/: global interrupt enable
  gu8Prescaler,            \* firmware/src/util.c: 100 us ticks within the millisecond
  u16Ret,                  \* firmware/src/util.c: Util_GetTimerMs local
  watch                    \* bookkeeping about the main loop (see WatchInit)

engine == <<u8AnimationIndex, gu16NormalTimer, gu16RGBTimer, gu16LastCall, u8LastState,
            u8RepetitionCounter, u8LastStateRGB, u8RepetitionCounterRGB,
            gau8LEDBrightness, gau8RGBLEDs>>

locals == <<u8AnimationState, u8AnimationStateRGB, u8CatalogIndex>>

persist == <<eeprom, gpsNextSaveSlot>>

stepper == <<pc, u8Index, u8InnerIndex>>

driver == <<gu8PWMCounter, gbitSide, ledPins>>

mainloop == <<mpc, geButtonState, gu16ButtonPressTimer, u8CurrentAnimation, bPressedLong,
              u32UptimeCounter, u16LastCall, BUTTON_PIN, u16LastPushMs, bitPairing,
              bitGotPartnerID, EA, gu8Prescaler, u16Ret, watch>>

vars == <<gu16TimerMS, engine, locals, persist, op, arg, hist, stepper, driver,
          gu16SynchronizedTimer, mainloop>>

(***************************************************************************)
(* Bounds of the model.                                                    *)
(***************************************************************************)
\* Playback is followed until the matrix sequence has restarted this many times.
MaxLoops == 1

\* Number of Animation_Set calls in a run.
MaxSets == 1

\* Milliseconds followed after an Animation_Set call.
MaxAfterSet == 3

\* Uptimes (ms) at which the caller may invoke Animation_Set.
PressTimes == {0, 200, 1200, 3299}

\* Arguments passed to Animation_Set: every catalog index and two values out of range.
SetIndices == (0..(NUM_ANIMATIONS - 1)) \cup {NUM_ANIMATIONS, 255}

\* Values of the persisted index found at boot.
BootIndices == 0..255

\* Number of Persist_Save calls and of power cycles in a run of the save arena.
MaxSaves == 3

MaxBoots == 2

\* Arguments of Animation_Set in the runs of the save arena.
SaveIndices == {0, 1, NUM_ANIMATIONS - 1, NUM_ANIMATIONS}

\* Saves already in the arena when a run starts: none, up to the slot that straddles
\* the first page boundary, and up to the last slots of the arena.
PreSaves == {0, 169, 1361, 1362}

(***************************************************************************)
(* Reads past the end of a table (undefined behaviour): the bytes found    *)
(* there depend on the build, so the fetched instruction is any of these.  *)
(***************************************************************************)
GarbageRGB ==
  { Instr(65535, <<0, 0, 0>>, 0, 0),
    Instr(65535, <<255, 255, 255>>, 0, 255),
    Instr(1, <<16, 0, 0>>, 129, 1) }

GarbageNormal ==
  { Instr(65535, <<0, 0, 0, 0, 0, 0, 0, 0, 0, 0, 0, 0>>, 0, 0),
    Instr(65535, <<255, 255, 255, 255, 255, 255, 255, 255, 255, 255, 255, 255>>, 0, 255) }

GarbageAnimation == Animation(<<>>, <<>>)

AnimationAt(i) == IF i < NUM_ANIMATIONS THEN At(gasAnimations, i) ELSE GarbageAnimation

(***************************************************************************)
(* SaturateBrightness: the saturated byte and how much it had to change.   *)
(***************************************************************************)
SaturateBrightness(v) ==
  IF I8(v) < 0 THEN [v |-> 0, r |-> I8(v)]
  ELSE IF I8(v) > 15 THEN [v |-> 15, r |-> I8(v) - 15]
  ELSE [v |-> v, r |-> 0]

\* a[j] += SaturateBrightness( &a[i] )
CarryStep(a, i, j) ==
  LET s == SaturateBrightness(At(a, i))
  IN  Put(Put(a, i, s.v), j, U8(At(a, j) + s.r))

(***************************************************************************)
(* Step lookup: walk the sequence, accumulating durations in 16 bits,      *)
(* until the running sum exceeds the channel clock.  Returns the length    *)
(* when the walk exhausts the sequence.                                    *)
(***************************************************************************)
\* Variant that stops on a running sum equal to the clock.
RECURSIVE LookupInclusive(_, _, _, _, _)
LookupInclusive(ins, len, k, u16StateTimer, timer) ==
  IF k >= len THEN len
  ELSE LET s == U16(u16StateTimer + At(ins, k).u16TimingMs)
       IN  IF s >= timer THEN k ELSE LookupInclusive(ins, len, k + 1, s, timer)

RECURSIVE Lookup(_, _, _, _, _)
Lookup(ins, len, k, u16StateTimer, timer) ==
  IF k >= len THEN len
  ELSE LET s == U16(u16StateTimer + At(ins, k).u16TimingMs)
       IN  IF s > timer THEN k ELSE Lookup(ins, len, k + 1, s, timer)

(***************************************************************************)
(* Opcode effects on the matrix vector, in the order of Animation_Cycle.   *)
(***************************************************************************)
\* Variant of the addition that saturates at 15 and at 0.
AddOpSaturating(a, b, n) ==
  [i \in 1..n |-> IF a[i] + I8(b[i]) > 15 THEN 15
                  ELSE IF a[i] + I8(b[i]) < 0 THEN 0 ELSE a[i] + I8(b[i])]

AddOp(a, b, n) ==
  [i \in 1..n |-> IF U8(a[i] + b[i]) > 15 THEN 0 ELSE U8(a[i] + b[i])]

\* Variant of the right rotation that shifts a 0 in instead of the last element.
RShiftOpDropsLast(a) ==
  [i \in 1..LEDS_NUM |-> IF i - 1 = 0 THEN 0 ELSE At(a, (i - 1) - 1)]

RShiftOp(a) ==
  [i \in 1..LEDS_NUM |-> IF i - 1 = 0 THEN At(a, LEDS_NUM - 1) ELSE At(a, (i - 1) - 1)]

LShiftOp(a) ==
  [i \in 1..LEDS_NUM |-> IF i - 1 = LEDS_NUM - 1 THEN At(a, 0) ELSE At(a, (i - 1) + 1)]

\* U8 gau8LEDBrightness[ LEDS_NUM ] and the au8LEDBrightness operand of an instruction.
ByteVectors == [1..LEDS_NUM -> 0..255]

\* The loops of USOURCE and DSOURCE, written as functions of the vector and the loop
\* index, so that every iteration works on the evaluated vector of the one before.
USourceLeftInner[a \in ByteVectors, inner \in 0..LEDS_NUM] ==
  IF inner < RIGHT_LEDS_START - 1
  THEN USourceLeftInner[CarryStep(a, inner, inner + 1), inner + 1]
  ELSE a

USourceLeft[a \in ByteVectors, b \in ByteVectors, u \in 0..LEDS_NUM] ==
  IF u < RIGHT_LEDS_START - 1
  THEN USourceLeft[USourceLeftInner[Put(a, u, U8(At(a, u) + I8(At(b, u)))), u], b, u + 1]
  ELSE LET l == RIGHT_LEDS_START - 1
       IN  Put(a, l, SaturateBrightness(U8(At(a, l) + I8(At(b, l)))).v)

USourceRightInner[a \in ByteVectors, inner \in 0..LEDS_NUM] ==
  IF inner > RIGHT_LEDS_START
  THEN USourceRightInner[CarryStep(a, inner, inner - 1), inner - 1]
  ELSE a

USourceRight[a \in ByteVectors, b \in ByteVectors, u \in 0..LEDS_NUM] ==
  IF u > RIGHT_LEDS_START
  THEN USourceRight[USourceRightInner[Put(a, u, U8(At(a, u) + I8(At(b, u)))), LEDS_NUM - 1],
                    b, u - 1]
  ELSE LET r == RIGHT_LEDS_START
       IN  Put(a, r, SaturateBrightness(U8(At(a, r) + I8(At(b, r)))).v)

\* Variant of the upward source that saturates every element on its own and passes
\* nothing on.
USourceOpNoCarry(a, b) ==
  [i \in 1..LEDS_NUM |-> SaturateBrightness(U8(a[i] + I8(b[i]))).v]

USourceOp(a, b) == USourceRight[USourceLeft[a, b, 0], b, LEDS_NUM - 1]

DSourceLeftInner[a \in ByteVectors, inner \in 0..LEDS_NUM] ==
  IF inner > 0
  THEN DSourceLeftInner[CarryStep(a, inner, inner - 1), inner - 1]
  ELSE a

DSourceLeft[a \in ByteVectors, b \in ByteVectors, u \in 0..LEDS_NUM] ==
  IF u > 0
  THEN DSourceLeft[DSourceLeftInner[Put(a, u, U8(At(a, u) + I8(At(b, u)))), u], b, u - 1]
  ELSE Put(a, 0, SaturateBrightness(U8(At(a, 0) + I8(At(b, 0)))).v)

DSourceRightInner[a \in ByteVectors, inner \in 0..LEDS_NUM] ==
  IF inner < LEDS_NUM - 1
  THEN DSourceRightInner[CarryStep(a, inner, inner + 1), inner + 1]
  ELSE a

DSourceRight[a \in ByteVectors, b \in ByteVectors, u \in 0..LEDS_NUM] ==
  IF u < LEDS_NUM - 1
  THEN DSourceRight[DSourceRightInner[Put(a, u, U8(At(a, u) + I8(At(b, u)))),
                                      RIGHT_LEDS_START], b, u + 1]
  ELSE LET l == LEDS_NUM - 1
       IN  Put(a, l, SaturateBrightness(U8(At(a, l) + I8(At(b, l)))).v)

DSourceOp(a, b) == DSourceRight[DSourceLeft[a, b, RIGHT_LEDS_START - 1], b, RIGHT_LEDS_START]

DivOp(a, b, n) ==
  [i \in 1..n |-> IF b[i] # 0 THEN a[i] \div b[i] ELSE a[i]]

\* Variant in which the division comes first and the downward source before the upward.
EffectsNormalReordered(a, ins) ==
  LET o  == ins.u8AnimationOpcode
      b  == ins.au8Brightness
      a1 == IF HasBit(o, DIV) THEN DivOp(a, b, LEDS_NUM) ELSE a
      a2 == IF HasBit(o, ADD) THEN AddOp(a1, b, LEDS_NUM) ELSE a1
      a3 == IF HasBit(o, RSHIFT) THEN RShiftOp(a2) ELSE a2
      a4 == IF HasBit(o, LSHIFT) THEN LShiftOp(a3) ELSE a3
      a5 == IF HasBit(o, DSOURCE) THEN DSourceOp(a4, b) ELSE a4
      a6 == IF HasBit(o, USOURCE) THEN USourceOp(a5, b) ELSE a5
  IN  IF o = LOAD THEN b ELSE a6

\* The brightness effects of one matrix instruction (everything but the repeat bookkeeping).
EffectsNormal(a, ins) ==
  LET o  == ins.u8AnimationOpcode
      b  == ins.au8Brightness
      a1 == IF HasBit(o, ADD) THEN AddOp(a, b, LEDS_NUM) ELSE a
      a2 == IF HasBit(o, RSHIFT) THEN RShiftOp(a1) ELSE a1
      a3 == IF HasBit(o, LSHIFT) THEN LShiftOp(a2) ELSE a2
      a4 == IF HasBit(o, USOURCE) THEN USourceOp(a3, b) ELSE a3
      a5 == IF HasBit(o, DSOURCE) THEN DSourceOp(a4, b) ELSE a4
      a6 == IF HasBit(o, DIV) THEN DivOp(a5, b, LEDS_NUM) ELSE a5
  IN  IF o = LOAD THEN b ELSE a6

\* The same for the RGB LED: shifts and sources are not implemented there.
EffectsRGB(a, ins) ==
  LET o  == ins.u8AnimationOpcode
      b  == ins.au8Brightness
      a1 == IF HasBit(o, ADD) THEN AddOp(a, b, NUM_RGBLED_COLORS) ELSE a
      a2 == IF HasBit(o, DIV) THEN DivOp(a1, b, NUM_RGBLED_COLORS) ELSE a1
  IN  IF o = LOAD THEN b ELSE a2

(***************************************************************************)
(* Repeat bookkeeping of one executed instruction: the channel clock, the  *)
(* repetition counter and the last-executed cursor afterwards.             *)
(***************************************************************************)
\* Variant of the first encounter that arms the counter without rewinding the clock.
RepeatFirstNoRewind(ins, k, timer, rep, last) ==
  [timer |-> timer, rep |-> ins.u8AnimationOperand, last |-> last, rewound |-> FALSE]

\* Variant of the first encounter that takes the clock back by two durations.
RepeatFirstRewindsTwice(ins, k, timer, rep, last) ==
  [timer |-> U16(timer - 2 * ins.u16TimingMs), rep |-> ins.u8AnimationOperand,
   last |-> last, rewound |-> TRUE]

\* First encounter: u8RepetitionCounter = operand, the clock goes back one duration.
RepeatFirst(ins, k, timer, rep, last) ==
  [timer |-> U16(timer - ins.u16TimingMs), rep |-> ins.u8AnimationOperand, last |-> last,
   rewound |-> TRUE]

\* Variant of a later encounter that tests the counter before decrementing it.
RepeatAgainOnceMore(ins, k, timer, rep, last) ==
  IF rep # 0
  THEN [timer |-> U16(timer - ins.u16TimingMs), rep |-> U8(rep - 1), last |-> last,
        rewound |-> TRUE]
  ELSE [timer |-> timer, rep |-> 0, last |-> k, rewound |-> FALSE]

\* Later encounters: decrement; rewind while nonzero, else mark the step executed.
RepeatAgain(ins, k, timer, rep, last) ==
  IF U8(rep - 1) # 0
  THEN [timer |-> U16(timer - ins.u16TimingMs), rep |-> U8(rep - 1), last |-> last,
        rewound |-> TRUE]
  ELSE [timer |-> timer, rep |-> 0, last |-> k, rewound |-> FALSE]

Bookkeeping(ins, k, timer, rep, last) ==
  IF ins.u8AnimationOpcode = LOAD THEN [timer |-> timer, rep |-> rep, last |-> k, rewound |-> FALSE]
  ELSE IF HasBit(ins.u8AnimationOpcode, REPEAT)
       THEN IF rep = 0 THEN RepeatFirst(ins, k, timer, rep, last)
            ELSE RepeatAgain(ins, k, timer, rep, last)
       ELSE [timer |-> timer, rep |-> rep, last |-> k, rewound |-> FALSE]


(***************************************************************************)
(* util.c: CRC-16 of a byte buffer.                                        *)
(***************************************************************************)
CRC16_PRECONDITION == 48422

gcau16CRC16F3Table ==
  <<
    0, 6955, 13910, 11645, 27820, 30599, 23290, 16849,
    55640, 49779, 61198, 62501, 46580, 44767, 33698, 39049,
    43419, 45744, 40909, 34022, 50487, 56860, 62305, 59466,
    28867, 27624, 18069, 23998, 7279, 1860, 10809, 12562,
    18461, 21302, 32331, 25952, 9393, 16282, 4839, 2508,
    37189, 35438, 42771, 48184, 65001, 59074, 52159, 53396,
    57734, 64173, 55248, 52475, 36138, 38401, 47996, 41047,
    14558, 9205, 3720, 5539, 21618, 20313, 25124, 30991,
    36922, 35601, 42604, 48455, 64662, 59325, 51904, 53739,
    18786, 21065, 32564, 25631, 9678, 16101, 5016, 2227,
    14753, 8842, 4087, 5340, 21773, 20006, 25435, 30832,
    57593, 64466, 54959, 52612, 35925, 38782, 47619, 41256,
    55335, 49932, 61041, 62810, 46219, 44960, 33501, 39414,
    383, 6740, 14121, 11266, 28115, 30456, 23429, 16558,
    29116, 27287, 18410, 23745, 7440, 1595, 11078, 12397,
    43236, 46031, 40626, 34201, 50248, 57187, 61982, 59701,
    15199, 8308, 3337, 5666, 22515, 19672, 24997, 31374,
    57863, 63788, 54353, 53114, 36523, 38272, 47357, 41942,
    37572, 35311, 42130, 49081, 65128, 58691, 51262, 54037,
    19356, 20663, 32202, 26337, 10032, 15387, 4454, 2637,
    29506, 26729, 17684, 24127, 8174, 1221, 10680, 12947,
    43546, 45361, 40012, 34663, 50870, 56733, 61664, 60363,
    56025, 49650, 60559, 63396, 46709, 44382, 32803, 39688,
    897, 6314, 13783, 12028, 28461, 29702, 22907, 16976,
    43877, 45134, 40243, 34328, 51145, 56546, 61855, 60084,
    29245, 26902, 17515, 24384, 7825, 1466, 10439, 13292,
    766, 6613, 13480, 12163, 28242, 30073, 22532, 17199,
    56230, 49293, 60912, 63195, 46858, 44065, 33116, 39543,
    58232, 63571, 54574, 52741, 36820, 38143, 47490, 41641,
    14880, 8459, 3190, 5981, 22156, 19879, 24794, 31729,
    19171, 20936, 31925, 26526, 9807, 15716, 4121, 2866,
    37819, 34960, 42477, 48838, 65303, 58428, 51521, 53866
  >>

\* Bitwise exclusive or of two naturals, bit by bit.
RECURSIVE XorBits(_, _)
XorBits(a, b) ==
  IF a = 0 THEN b
  ELSE IF b = 0 THEN a
  ELSE 2 * XorBits(a \div 2, b \div 2) + ((a + b) % 2)

XorNibble == [a \in 0..15 |-> [b \in 0..15 |-> XorBits(a, b)]]

\* The same, four bits at a time.
RECURSIVE Xor(_, _)
Xor(a, b) ==
  IF a = 0 THEN b
  ELSE IF b = 0 THEN a
  ELSE 16 * Xor(a \div 16, b \div 16) + XorNibble[a % 16][b % 16]

\* One round of the loop of Util_CRC16.
CRC16Round(u16Crc, byte) ==
  Xor(U16(u16Crc * 256), At(gcau16CRC16F3Table, Xor(U8(u16Crc \div 256), byte)))

RECURSIVE CRC16From(_, _, _)
CRC16From(u16Crc, pu8Buffer, u8Idx) ==
  IF u8Idx = Len(pu8Buffer) THEN u16Crc
  ELSE CRC16From(CRC16Round(u16Crc, At(pu8Buffer, u8Idx)), pu8Buffer, u8Idx + 1)

\* Variant without the preconditioning value.
Util_CRC16NoPrecondition(pu8Buffer) == CRC16From(0, pu8Buffer, 0)

Util_CRC16(pu8Buffer) == CRC16From(CRC16_PRECONDITION, pu8Buffer, 0)

(***************************************************************************)
(* persist.c: the save arena.  mem holds the bytes of the EEPROM from       *)
(* offset 0 up to the highest offset programmed so far; every offset       *)
(* beyond reads 0xFF (erased).  Pointers into the arena are 16-bit         *)
(* addresses.                                                              *)
(***************************************************************************)
EEPROM_SIZE == 4096

EEPROM_BASEADDRESS == 8192

EEPROM_PAGE == 512

\* sizeof( S_PERSIST ): U8 u8AnimationIndex; U16 u16CRC, packed.
SIZEOF_PERSIST == 3

ErasedArena == <<>>

\* The byte image of an S_PERSIST (Keil C51 stores the U16 high byte first; the
\* record is written and read back by the same build).
PersistBytes(s) == <<s.u8AnimationIndex, s.u16CRC \div 256, s.u16CRC % 256>>

PersistFromBytes(b) == [u8AnimationIndex |-> b[1], u16CRC |-> b[2] * 256 + b[3]]

\* IAP_ADDRL/IAP_ADDRH: only the lower 12 bits of an address are used.
IAP_Offset(u16Address) == u16Address % EEPROM_SIZE

IAP_ReadByte(mem, u16Address) ==
  IF IAP_Offset(u16Address) < Len(mem) THEN At(mem, IAP_Offset(u16Address)) ELSE 255

IAP_Read(mem, u16Address, u8DataLength) ==
  [i \in 1..u8DataLength |-> IAP_ReadByte(mem, U16(u16Address + (i - 1)))]

\* Programming a cell can only clear bits: an erased cell (0xFF) takes the byte as it
\* is, a cell programmed before keeps only the bits set in both.
RECURSIVE BitAnd(_, _)
BitAnd(a, b) ==
  IF a = 0 \/ b = 0 THEN 0
  ELSE 2 * BitAnd(a \div 2, b \div 2) + (IF a % 2 = 1 /\ b % 2 = 1 THEN 1 ELSE 0)

Program(cell, byte) == IF cell = 255 THEN byte ELSE BitAnd(cell, byte)

IAP_WriteByte(mem, u16Address, byte) ==
  IF IAP_Offset(u16Address) < Len(mem)
  THEN Put(mem, IAP_Offset(u16Address), Program(At(mem, IAP_Offset(u16Address)), byte))
  ELSE mem \o [i \in 1..(IAP_Offset(u16Address) - Len(mem)) |-> 255] \o <<byte>>

RECURSIVE IAP_WriteFrom(_, _, _, _)
IAP_WriteFrom(mem, u16Address, pu8Data, u8WriteIndex) ==
  IF u8WriteIndex >= Len(pu8Data) THEN mem
  ELSE IAP_WriteFrom(IAP_WriteByte(mem, u16Address, At(pu8Data, u8WriteIndex)),
                     U16(u16Address + 1), pu8Data, u8WriteIndex + 1)

IAP_Write(mem, u16Address, pu8Data) == IAP_WriteFrom(mem, u16Address, pu8Data, 0)

\* Erases the page of the address: its lower 9 bits are discarded.
IAP_Erase(mem, u16Address) ==
  LET page == IAP_Offset(u16Address) - (IAP_Offset(u16Address) % EEPROM_PAGE)
  IN  SubSeq([i \in 1..Len(mem) |->
                IF i - 1 >= page /\ i - 1 < page + EEPROM_PAGE THEN 255 ELSE mem[i]],
             1, Len(mem))

IsSaveBlockEmpty(mem, psSaveBlock) ==
  \A i \in 1..SIZEOF_PERSIST : IAP_Read(mem, psSaveBlock, SIZEOF_PERSIST)[i] = 255

\* Variant of the loop body that keeps the first save with a good CRC.
SearchStepFirstValid(mem, st, u16SaveIndex) ==
  LET psSave == U16(EEPROM_BASEADDRESS + SIZEOF_PERSIST * u16SaveIndex)
      sLocalCopy == PersistFromBytes(IAP_Read(mem, psSave, SIZEOF_PERSIST))
  IN  IF sLocalCopy.u16CRC = Util_CRC16(<<sLocalCopy.u8AnimationIndex>>)
      THEN IF st.bReturn THEN st
           ELSE [st EXCEPT !.data = sLocalCopy.u8AnimationIndex, !.bReturn = TRUE]
      ELSE IF st.bReturn /\ IsSaveBlockEmpty(mem, psSave)
           THEN [st EXCEPT !.next = psSave, !.stop = TRUE]
           ELSE st

\* Variant of the loop body that compares only the low byte of the CRC.
SearchStepCrcLowByte(mem, st, u16SaveIndex) ==
  LET psSave == U16(EEPROM_BASEADDRESS + SIZEOF_PERSIST * u16SaveIndex)
      sLocalCopy == PersistFromBytes(IAP_Read(mem, psSave, SIZEOF_PERSIST))
  IN  IF U8(sLocalCopy.u16CRC) = U8(Util_CRC16(<<sLocalCopy.u8AnimationIndex>>))
      THEN [st EXCEPT !.data = sLocalCopy.u8AnimationIndex, !.bReturn = TRUE]
      ELSE IF st.bReturn /\ IsSaveBlockEmpty(mem, psSave)
           THEN [st EXCEPT !.next = psSave, !.stop = TRUE]
           ELSE st

\* The body of the loop of SearchForLatestSave for one slot.
SearchStepNoBreak(mem, st, u16SaveIndex) ==
  LET psSave == U16(EEPROM_BASEADDRESS + SIZEOF_PERSIST * u16SaveIndex)
      sLocalCopy == PersistFromBytes(IAP_Read(mem, psSave, SIZEOF_PERSIST))
  IN  IF sLocalCopy.u16CRC = Util_CRC16(<<sLocalCopy.u8AnimationIndex>>)
      THEN [st EXCEPT !.data = sLocalCopy.u8AnimationIndex, !.bReturn = TRUE]
      ELSE IF st.bReturn /\ IsSaveBlockEmpty(mem, psSave)
           THEN [st EXCEPT !.next = psSave]
           ELSE st

SearchStep(mem, st, u16SaveIndex) ==
  LET psSave == U16(EEPROM_BASEADDRESS + SIZEOF_PERSIST * u16SaveIndex)
      sLocalCopy == PersistFromBytes(IAP_Read(mem, psSave, SIZEOF_PERSIST))
  IN  IF sLocalCopy.u16CRC = Util_CRC16(<<sLocalCopy.u8AnimationIndex>>)
      THEN [st EXCEPT !.data = sLocalCopy.u8AnimationIndex, !.bReturn = TRUE]
      ELSE IF st.bReturn /\ IsSaveBlockEmpty(mem, psSave)
           THEN [st EXCEPT !.next = psSave, !.stop = TRUE]
           ELSE st

\* The loop over the slots lo..hi, in order, until the break.
RECURSIVE SearchRange(_, _, _, _)
SearchRange(mem, st, lo, hi) ==
  IF st.stop \/ lo > hi THEN st
  ELSE IF lo = hi THEN SearchStep(mem, st, lo)
  ELSE LET mid == (lo + hi) \div 2
           half == SearchRange(mem, st, lo, mid)
       IN  SearchRange(mem, half, mid + 1, hi)

\* data: gsPersistentData.u8AnimationIndex; next: *ppsNextEmpty.
SearchForLatestSave(mem, data, next) ==
  SearchRange(mem, [data |-> data, next |-> next, bReturn |-> FALSE, stop |-> FALSE],
              0, (EEPROM_SIZE \div SIZEOF_PERSIST) - 1)

Persist_InitNoDefault(mem) ==
  LET r == SearchForLatestSave(mem, 0, 0)
  IN  [u8AnimationIndex |-> r.data, gpsNextSaveSlot |-> r.next]

\* Persist_Init after a reset: both globals start as zero-initialised RAM.
Persist_Init(mem) ==
  LET r == SearchForLatestSave(mem, 0, 0)
  IN  IF r.bReturn
      THEN [u8AnimationIndex |-> r.data, gpsNextSaveSlot |-> r.next]
      ELSE [u8AnimationIndex |-> 0, gpsNextSaveSlot |-> EEPROM_BASEADDRESS]

Persist_Save(mem, index, slot) ==
  LET u16PrevSaveAddress == slot
      sLocalCopy == [u8AnimationIndex |-> index, u16CRC |-> Util_CRC16(<<index>>)]
      written == IAP_Write(mem, slot, PersistBytes(sLocalCopy))
      next == U16(slot + SIZEOF_PERSIST)
  IN  [gpsNextSaveSlot |-> next,
       eeprom |->
         IF ~IsSaveBlockEmpty(written, next)
         THEN IF next - (next % EEPROM_PAGE) < u16PrevSaveAddress
              THEN IAP_Erase(written, U16(next + SIZEOF_PERSIST))
              ELSE IAP_Erase(written, next)
         ELSE written]
(***************************************************************************)
(* One Animation_Cycle call with a new clock value: the matrix channel.    *)
(* nt, rt: both channel clocks after the elapsed time was added.           *)
(***************************************************************************)
\* Variant without the range check of the active index.
ClampIndexNone(i) == i

\* if( u8AnimationIndex >= NUM_ANIMATIONS ) u8AnimationIndex = 0u;
ClampIndex(i) == IF i >= NUM_ANIMATIONS THEN 0 ELSE i

LookupNormal(A, nt) ==
  Lookup(A.psInstructionsNormal, A.u8AnimationLengthNormal, 0, 0, nt)

LookupRGB(A, rt) ==
  Lookup(A.psInstructionsRGB, A.u8AnimationLengthRGB, 0, 0, rt)

\* The instructions a fetch of psInstructionsNormal[ k ] can return.
FetchNormal(A, k) ==
  IF k < A.u8AnimationLengthNormal THEN {At(A.psInstructionsNormal, k)} ELSE GarbageNormal

FetchRGB(A, k) ==
  IF k < A.u8AnimationLengthRGB THEN {At(A.psInstructionsRGB, k)} ELSE GarbageRGB

\* Variant of the restart that leaves the accent clock running.
RestartNormalKeepsRGB(A, k, nt, rt) ==
  IF k >= A.u8AnimationLengthNormal
  THEN [k |-> 0, nt |-> 0, rt |-> rt, restarted |-> TRUE]
  ELSE [k |-> k, nt |-> nt, rt |-> rt, restarted |-> FALSE]

\* Restart of the animation when the matrix walk exhausted the sequence.
RestartNormal(A, k, nt, rt) ==
  IF k >= A.u8AnimationLengthNormal
  THEN [k |-> 0, nt |-> 0, rt |-> 0, restarted |-> TRUE]
  ELSE [k |-> k, nt |-> nt, rt |-> rt, restarted |-> FALSE]

\* The RGB channel has no restart of its own.
RestartRGB(A, k, rt) == [k |-> k, rt |-> rt, restarted |-> FALSE]

\* Variant that returns only the low byte of the millisecond counter.
Util_GetTimerMsLowByte == gu16TimerMS % 256

Util_GetTimerMs == gu16TimerMS

\* Variant that runs the body on every call.
TimeElapsedAlways(u16TimeNow) == TRUE

\* Variant that executes the resolved instruction on every call.
NextInstructionAlways(last, k) == TRUE

\* if( u8LastState != u8AnimationState ): the resolved step is not the one last executed.
NextInstruction(last, k) == last # k

\* Variant that takes the clock to have advanced only when it reads a larger value.
TimeElapsedForward(u16TimeNow) == u16TimeNow > gu16LastCall

\* if( u16TimeNow != gu16LastCall ): the body runs only when the clock has advanced.
TimeElapsed(u16TimeNow) == u16TimeNow # gu16LastCall

(***************************************************************************)
(* Bookkeeping about the run, used to state the properties.                *)
(***************************************************************************)
NoExec ==
  [step |-> NO_STATE, count |-> 0, rewinds |-> 0, firstMs |-> 0, doneMs |-> 0,
   base |-> [i \in 1..LEDS_NUM |-> 0], ins |-> Instr(0, <<>>, 0, 0), done |-> FALSE]

\* nLoops, nSets, msAfterSet: how far the run went (see the bounds).
\* midRepeat: the last Animation_Set found a repeat pending.  preIndex: the active
\* index before the last step.  elapsed: clock delta seen by the last Animation_Cycle.
\* twice: the last step was an Animation_Cycle call directly after another one.
\* preN, preR: the channel clocks when the step lookup ran; clkN, clkR: the clocks
\* right after the lookup (and the restart).  exec: the executions of the matrix
\* step being executed; prev: the same for the step executed before it.
\* nPre: saves in the arena when the run started; nSaves: saves in the arena;
\* nBoots: power cycles so far; lastSaved: the index written by the last Persist_Save.
\* flipped, flipBit: a bit of the latest record was flipped, and which one; older: the
\* index of the record saved before the latest one.  lossSlot: address of the slot
\* that was being written when power was lost (0: no power loss so far); lossIndex:
\* the index of the current record when power was lost.  late: milliseconds counted
\* by the timer interrupt since Animation_Cycle last caught up with the clock.
HistInit ==
  [nLoops |-> 0, nSets |-> 0, msAfterSet |-> 0, midRepeat |-> FALSE, preIndex |-> 0,
   elapsed |-> 0, twice |-> FALSE, preN |-> 0, preR |-> 0, clkN |-> 0, clkR |-> 0,
   exec |-> NoExec, prev |-> NoExec, nPre |-> 0, nSaves |-> 0, nBoots |-> 0,
   lastSaved |-> 0, flipped |-> FALSE, flipBit |-> 0, older |-> 0, lossSlot |-> 0,
   lossIndex |-> 0, late |-> 0, build |-> 1]

\* Executions of the matrix step k by this call: a first execution opens a new record.
ExecAfter(e, k, ins, before, bk, now) ==
  IF e.step = k /\ ~e.done
  THEN [e EXCEPT !.count = e.count + 1,
                 !.rewinds = e.rewinds + (IF bk.rewound THEN 1 ELSE 0),
                 !.done = (bk.last = k), !.doneMs = now]
  ELSE [step |-> k, count |-> 1, rewinds |-> IF bk.rewound THEN 1 ELSE 0, firstMs |-> now,
        doneMs |-> now, base |-> before, ins |-> ins, done |-> (bk.last = k)]

(***************************************************************************)
(* Animation_Init / boot: Util_Init, LED_Init, RGBLED_Init, Animation_Init *)
(* and the persisted index found by Persist_Init.                          *)
(***************************************************************************)
Animation_Init ==
  /\ gu16NormalTimer = 0
  /\ gu16RGBTimer = 0
  /\ gu16LastCall = Util_GetTimerMs

\* Bookkeeping about the main loop: milliseconds that really elapsed since boot and at
\* the last uptime update, interrupts taken inside the loop body, and per button press
\* the calls it caused.
WatchInit ==
  [elapsed |-> 0, atStore |-> 0, midTicks |-> 0, tickInPass |-> FALSE, edges |-> 0,
   presses |-> 0, pressedAt |-> 0, pressedIn |-> "BUTTON_UNPRESSED", heldMs |-> 0,
   releasedAfter |-> 0, sets |-> 0, saves |-> 0, setArg |-> 0, order |-> <<>>,
   saved |-> 0, selected |-> 0, current |-> 0, packets |-> 0, atCall |-> 0, irqInCall |-> 0, off |-> FALSE]

\* main(): the module variables and locals at the top of the main loop, index being the
\* animation selected. Specifications that never run the main loop hold them at
\* MainInit(0).
MainInit(index) ==
  /\ mpc = "top"
  /\ geButtonState = "BUTTON_UNPRESSED"
  /\ gu16ButtonPressTimer = 0
  /\ u8CurrentAnimation = index
  /\ bPressedLong = FALSE
  /\ u32UptimeCounter = [hi |-> 0, lo |-> 0]
  /\ u16LastCall = 0
  /\ BUTTON_PIN = 1
  /\ u16LastPushMs = 5000
  /\ bitPairing = 0
  /\ bitGotPartnerID = 0
  /\ EA = 1
  /\ gu8Prescaler = 0
  /\ u16Ret = 0
  /\ watch = WatchInit

\* The state after main()'s init block, when Persist_Init loaded index and slot.
Boot(mem, index, slot) ==
  /\ gu16TimerMS = 0
  /\ eeprom = mem
  /\ u8AnimationIndex = index
  /\ gpsNextSaveSlot = slot
  /\ Animation_Init
  /\ u8LastState = NO_STATE
  /\ u8RepetitionCounter = 0
  /\ u8LastStateRGB = NO_STATE
  /\ u8RepetitionCounterRGB = 0
  /\ gau8LEDBrightness = [i \in 1..LEDS_NUM |-> 0]
  /\ gau8RGBLEDs = [i \in 1..NUM_RGBLED_COLORS |-> 0]
  /\ u8AnimationState = 0
  /\ u8AnimationStateRGB = 0
  /\ u8CatalogIndex = 0
  /\ pc = "idle"
  /\ u8Index = 0
  /\ u8InnerIndex = 0
  /\ gu8PWMCounter = 0
  /\ gbitSide = 0
  /\ ledPins = [i \in 1..NUM_LED_PINS |-> FALSE]
  /\ gu16SynchronizedTimer = 0
  /\ op = "boot"
  /\ arg = 0

\* Boot of the animation engine: the persistent store of the fw_py32 build hands
\* over any index byte; the save arena of persist.c plays no part in these runs.
Init ==
  /\ \E b \in BootIndices : Boot(ErasedArena, b, EEPROM_BASEADDRESS) /\ MainInit(0)
  /\ hist = HistInit

(***************************************************************************)
(* The millisecond interrupt: gu16TimerMS++.  The main loop runs           *)
(* Animation_Cycle at least once in every millisecond.                     *)
(***************************************************************************)
Util_Interrupt ==
  /\ gu16TimerMS = gu16LastCall
  /\ IF hist.nSets = 0 THEN hist.nLoops < MaxLoops ELSE hist.msAfterSet < MaxAfterSet
  /\ gu16TimerMS' = U16(gu16TimerMS + 1)
  /\ op' = "tick"
  /\ arg' = 0
  /\ hist' = [hist EXCEPT !.msAfterSet = IF hist.nSets = 0 THEN 0 ELSE @ + 1,
                          !.midRepeat = FALSE, !.preIndex = u8AnimationIndex,
                          !.twice = FALSE]
  /\ UNCHANGED <<engine, locals, persist>>
  /\ UNCHANGED <<stepper, driver, gu16SynchronizedTimer, mainloop>>

(***************************************************************************)
(* Animation_Cycle.                                                        *)
(***************************************************************************)
Animation_Cycle ==
  LET u16TimeNow == Util_GetTimerMs
      d   == U16(u16TimeNow - gu16LastCall)
      idx == ClampIndex(u8AnimationIndex)
      A   == AnimationAt(idx)
      \* normal LEDs
      N   == RestartNormal(A, LookupNormal(A, U16(gu16NormalTimer + d)),
                           U16(gu16NormalTimer + d), U16(gu16RGBTimer + d))
      doN == NextInstruction(u8LastState, N.k)
      \* RGB LED
      R   == RestartRGB(A, LookupRGB(A, N.rt), N.rt)
      doR == NextInstruction(u8LastStateRGB, R.k)
  IN  /\ op' = "cycle"
      /\ arg' = 0
      /\ IF ~TimeElapsed(u16TimeNow)
         THEN /\ UNCHANGED <<engine, locals>>
              /\ hist' = [hist EXCEPT !.midRepeat = FALSE, !.preIndex = u8AnimationIndex,
                                      !.elapsed = 0, !.twice = (op = "cycle")]
         ELSE \E insN \in (IF doN THEN FetchNormal(A, N.k) ELSE {Instr(0, <<>>, 0, 0)}) :
              \E insR \in (IF doR THEN FetchRGB(A, R.k) ELSE {Instr(0, <<>>, 0, 0)}) :
                LET bkN == IF doN
                           THEN Bookkeeping(insN, N.k, N.nt, u8RepetitionCounter, u8LastState)
                           ELSE [timer |-> N.nt, rep |-> u8RepetitionCounter,
                                 last |-> u8LastState, rewound |-> FALSE]
                    bkR == IF doR
                           THEN Bookkeeping(insR, R.k, R.rt, u8RepetitionCounterRGB,
                                            u8LastStateRGB)
                           ELSE [timer |-> R.rt, rep |-> u8RepetitionCounterRGB,
                                 last |-> u8LastStateRGB, rewound |-> FALSE]
                IN  /\ u8AnimationIndex' = idx
                    /\ u8CatalogIndex' = idx
                    /\ u8AnimationState' = N.k
                    /\ u8AnimationStateRGB' = R.k
                    /\ gau8LEDBrightness' =
                         IF doN THEN EffectsNormal(gau8LEDBrightness, insN)
                         ELSE gau8LEDBrightness
                    /\ gau8RGBLEDs' =
                         IF doR THEN EffectsRGB(gau8RGBLEDs, insR) ELSE gau8RGBLEDs
                    /\ gu16NormalTimer' = bkN.timer
                    /\ u8RepetitionCounter' = bkN.rep
                    /\ u8LastState' = bkN.last
                    /\ gu16RGBTimer' = bkR.timer
                    /\ u8RepetitionCounterRGB' = bkR.rep
                    /\ u8LastStateRGB' = bkR.last
                    /\ gu16LastCall' = u16TimeNow
                    /\ hist' = [hist EXCEPT
                         !.nLoops = @ + (IF N.restarted THEN 1 ELSE 0),
                         !.midRepeat = FALSE,
                         !.preIndex = u8AnimationIndex,
                         !.elapsed = d,
                         !.twice = (op = "cycle"),
                         !.preN = U16(gu16NormalTimer + d),
                         !.preR = N.rt,
                         !.clkN = N.nt,
                         !.clkR = R.rt,
                         !.exec = IF doN
                                  THEN ExecAfter(hist.exec, N.k, insN, gau8LEDBrightness,
                                                 bkN, u16TimeNow)
                                  ELSE @,
                         !.prev = IF doN /\ (hist.exec.step # N.k \/ hist.exec.done)
                                  THEN hist.exec ELSE @]
      /\ UNCHANGED <<gu16TimerMS, persist>>
      /\ UNCHANGED <<stepper, driver, gu16SynchronizedTimer, mainloop>>

(***************************************************************************)
(* Animation_Set.                                                          *)
(***************************************************************************)
\* Variant that leaves the repeat counters alone.
Animation_SetKeepsRepeat(index) ==
  IF index < NUM_ANIMATIONS
  THEN /\ u8AnimationIndex' = index
       /\ gu16NormalTimer' = 0
       /\ gu16RGBTimer' = 0
       /\ u8LastState' = NO_STATE
       /\ u8LastStateRGB' = NO_STATE
       /\ UNCHANGED <<gu16LastCall, gau8LEDBrightness, gau8RGBLEDs, u8RepetitionCounter,
                      u8RepetitionCounterRGB>>
  ELSE UNCHANGED engine

\* Variant without the range check of the argument.
Animation_SetUnchecked(index) ==
  /\ u8AnimationIndex' = index
  /\ gu16NormalTimer' = 0
  /\ gu16RGBTimer' = 0
  /\ u8LastState' = NO_STATE
  /\ u8RepetitionCounter' = 0
  /\ u8LastStateRGB' = NO_STATE
  /\ u8RepetitionCounterRGB' = 0
  /\ UNCHANGED <<gu16LastCall, gau8LEDBrightness, gau8RGBLEDs>>

Animation_Set(index) ==
  IF index < NUM_ANIMATIONS
  THEN /\ u8AnimationIndex' = index
       /\ gu16NormalTimer' = 0
       /\ gu16RGBTimer' = 0
       /\ u8LastState' = NO_STATE
       /\ u8RepetitionCounter' = 0
       /\ u8LastStateRGB' = NO_STATE
       /\ u8RepetitionCounterRGB' = 0
       /\ UNCHANGED <<gu16LastCall, gau8LEDBrightness, gau8RGBLEDs>>
  ELSE UNCHANGED engine

\* Variant in which selecting an animation also saves it.
SetAnimationSaves ==
  /\ hist.nSets < MaxSets
  /\ gu16TimerMS \in PressTimes
  /\ \E index \in SetIndices :
       /\ Animation_Set(index)
       /\ op' = "set"
       /\ arg' = index
       /\ hist' = [hist EXCEPT !.nSets = @ + 1, !.msAfterSet = 0,
                     !.midRepeat = (u8RepetitionCounter # 0 \/ u8RepetitionCounterRGB # 0),
                     !.preIndex = u8AnimationIndex,
                     !.twice = FALSE,
                     !.preN = IF index < NUM_ANIMATIONS THEN 0 ELSE @,
                     !.preR = IF index < NUM_ANIMATIONS THEN 0 ELSE @,
                     !.exec = IF index < NUM_ANIMATIONS THEN NoExec ELSE @,
                     !.prev = IF index < NUM_ANIMATIONS THEN NoExec ELSE @]
  /\ LET r == Persist_Save(eeprom, u8AnimationIndex', gpsNextSaveSlot)
     IN  /\ eeprom' = r.eeprom
         /\ gpsNextSaveSlot' = r.gpsNextSaveSlot
  /\ UNCHANGED <<gu16TimerMS, locals>>
  /\ UNCHANGED <<stepper, driver, gu16SynchronizedTimer, mainloop>>

\* The caller (button handler) selects an animation.
SetAnimation ==
  /\ hist.nSets < MaxSets
  /\ gu16TimerMS \in PressTimes
  /\ \E index \in SetIndices :
       /\ Animation_Set(index)
       /\ op' = "set"
       /\ arg' = index
       /\ hist' = [hist EXCEPT !.nSets = @ + 1, !.msAfterSet = 0,
                     !.midRepeat = (u8RepetitionCounter # 0 \/ u8RepetitionCounterRGB # 0),
                     !.preIndex = u8AnimationIndex,
                     !.twice = FALSE,
                     !.preN = IF index < NUM_ANIMATIONS THEN 0 ELSE @,
                     !.preR = IF index < NUM_ANIMATIONS THEN 0 ELSE @,
                     !.exec = IF index < NUM_ANIMATIONS THEN NoExec ELSE @,
                     !.prev = IF index < NUM_ANIMATIONS THEN NoExec ELSE @]
  /\ UNCHANGED <<gu16TimerMS, locals, persist>>
  /\ UNCHANGED <<stepper, driver, gu16SynchronizedTimer, mainloop>>

Next == Util_Interrupt \/ Animation_Cycle \/ SetAnimation

Spec == Init /\ [][Next]_vars


(***************************************************************************)
(* The save arena: button presses that select and save an animation, and   *)
(* power cycles, starting from an erased arena.                            *)
(***************************************************************************)
\* The arena after k saves of index 0 into an erased arena.
ArenaAfterSaves(k) ==
  SubSeq([i \in 1..(SIZEOF_PERSIST * k) |->
            At(PersistBytes([u8AnimationIndex |-> 0, u16CRC |-> Util_CRC16(<<0>>)]),
               (i - 1) % SIZEOF_PERSIST)],
         1, SIZEOF_PERSIST * k)

\* Boot on an arena that was erased and has since taken some saves of index 0.
InitPersist ==
  \E k \in PreSaves :
    LET loaded == Persist_Init(ArenaAfterSaves(k))
    IN  /\ Boot(ArenaAfterSaves(k), loaded.u8AnimationIndex, loaded.gpsNextSaveSlot) /\ MainInit(0)
        /\ hist = [HistInit EXCEPT !.nPre = k, !.nSaves = k]

\* main(): Animation_Set( u8CurrentAnimation ); Persist_Save();
SetAndSave ==
  /\ hist.nSaves < hist.nPre + MaxSaves
  /\ \E index \in SaveIndices :
       /\ Animation_Set(index)
       /\ arg' = index
  /\ LET r == Persist_Save(eeprom, u8AnimationIndex', gpsNextSaveSlot)
     IN  /\ eeprom' = r.eeprom
         /\ gpsNextSaveSlot' = r.gpsNextSaveSlot
  /\ op' = "save"
  /\ hist' = [hist EXCEPT !.nSaves = @ + 1, !.lastSaved = u8AnimationIndex',
                          !.preIndex = u8AnimationIndex]
  /\ UNCHANGED <<gu16TimerMS, locals>>
  /\ UNCHANGED <<stepper, driver, gu16SynchronizedTimer, mainloop>>

\* Power is removed and restored: RAM is lost, main() runs its init block again.
PowerCycle ==
  /\ hist.nBoots < MaxBoots
  /\ gu16TimerMS' = 0
  /\ eeprom' = eeprom
  /\ LET loaded == Persist_Init(eeprom)
     IN  /\ u8AnimationIndex' = loaded.u8AnimationIndex
         /\ gpsNextSaveSlot' = loaded.gpsNextSaveSlot
  /\ gu16NormalTimer' = 0
  /\ gu16RGBTimer' = 0
  /\ gu16LastCall' = 0
  /\ u8LastState' = NO_STATE
  /\ u8RepetitionCounter' = 0
  /\ u8LastStateRGB' = NO_STATE
  /\ u8RepetitionCounterRGB' = 0
  /\ gau8LEDBrightness' = [i \in 1..LEDS_NUM |-> 0]
  /\ gau8RGBLEDs' = [i \in 1..NUM_RGBLED_COLORS |-> 0]
  /\ u8AnimationState' = 0
  /\ u8AnimationStateRGB' = 0
  /\ u8CatalogIndex' = 0
  /\ op' = "boot"
  /\ arg' = 0
  /\ hist' = [hist EXCEPT !.nBoots = @ + 1, !.preIndex = u8AnimationIndex]
  /\ UNCHANGED <<stepper, driver, gu16SynchronizedTimer, mainloop>>

NextPersist == SetAndSave \/ PowerCycle

SpecPersist == InitPersist /\ [][NextPersist]_vars

(***************************************************************************)
(* Properties.                                                             *)
(***************************************************************************)

\* C1: after Animation_Set(index) with index < NUM_ANIMATIONS, from any engine state,
\* the active index is index, both channel clocks are 0, both last-executed-step
\* cursors hold 0xFF and both repeat counters are 0.
C1_SetResetsEngine ==
  (op = "set" /\ arg < NUM_ANIMATIONS) =>
    /\ u8AnimationIndex = arg
    /\ gu16NormalTimer = 0
    /\ gu16RGBTimer = 0
    /\ u8LastState = NO_STATE
    /\ u8LastStateRGB = NO_STATE
    /\ u8RepetitionCounter = 0
    /\ u8RepetitionCounterRGB = 0

\* An in-range Animation_Set that interrupted a pending repeat of another animation.
C1_Witness ==
  /\ op = "set"
  /\ arg < NUM_ANIMATIONS
  /\ hist.midRepeat
  /\ hist.preIndex # arg

\* C2: Animation_Set(index) with index >= NUM_ANIMATIONS changes nothing: the active
\* index, both clocks, both cursors, both repeat counters and both brightness vectors
\* keep their values.
C2_OutOfRangeSetIgnored ==
  [][(op' = "set" /\ arg' >= NUM_ANIMATIONS) => UNCHANGED engine]_vars

\* An out-of-range Animation_Set issued while a repeat was pending and the LEDs were lit.
C2_Witness ==
  /\ op = "set"
  /\ arg >= NUM_ANIMATIONS
  /\ u8RepetitionCounter # 0
  /\ u8LastState # NO_STATE
  /\ \E i \in 1..LEDS_NUM : gau8LEDBrightness[i] # 0

\* C9: an Animation_Cycle call that directly follows another one (no clock tick in
\* between) leaves the brightness vectors, both clocks, both cursors, both repeat
\* counters and the last-call timestamp unchanged.
C9_SecondCycleIsNoOp ==
  [][(op = "cycle" /\ op' = "cycle") => UNCHANGED <<engine, locals>>]_vars

\* A second call in the same millisecond while a repeat is pending on the matrix channel.
C9_Witness ==
  /\ op = "cycle"
  /\ hist.twice
  /\ hist.elapsed = 0
  /\ u8RepetitionCounter # 0
  /\ u8LastState # u8AnimationState

\* C10: whatever index (0..255) was loaded at boot, Animation_Cycle indexes the catalog
\* only below NUM_ANIMATIONS; an out-of-range index is replaced by 0 before the
\* first catalog access and the instruction executed is animation 0's.
C10_CatalogIndexInRange ==
  /\ u8CatalogIndex < NUM_ANIMATIONS
  /\ (op = "cycle" /\ hist.elapsed # 0 /\ hist.preIndex >= NUM_ANIMATIONS) =>
       /\ u8CatalogIndex = 0
       /\ u8AnimationIndex = 0
       /\ hist.exec.ins = At(At(gasAnimations, 0).psInstructionsNormal, u8AnimationState)
       /\ gau8LEDBrightness = hist.exec.ins.au8Brightness

\* The first effective Animation_Cycle after booting with the persisted index 255.
C10_Witness ==
  /\ op = "cycle"
  /\ hist.elapsed # 0
  /\ hist.nSets = 0
  /\ hist.preIndex = 255

\* Sum of the step durations of a sequence.
RECURSIVE TotalDuration(_, _)
TotalDuration(ins, n) ==
  IF n = 0 THEN 0 ELSE TotalDuration(ins, n - 1) + At(ins, n - 1).u16TimingMs

\* C3: right after every Animation_Cycle call, in any interleaving with Animation_Set,
\* every element of the matrix brightness vector and of the RGB triple is in 0..15.
C3_BrightnessInRange ==
  (op = "cycle") =>
    /\ \A i \in 1..LEDS_NUM : gau8LEDBrightness[i] \in 0..15
    /\ \A i \in 1..NUM_RGBLED_COLORS : gau8RGBLEDs[i] \in 0..15

\* C5: right after the step lookup of each channel, the channel clock is below the
\* total duration of its sequence and the resolved step index is below the sequence
\* length, for every animation of the catalog.
C5_LookupWithinSequence ==
  (op = "cycle" /\ hist.elapsed # 0) =>
    LET A == At(gasAnimations, u8CatalogIndex)
    IN  /\ u8AnimationState < A.u8AnimationLengthNormal
        /\ hist.clkN < TotalDuration(A.psInstructionsNormal, A.u8AnimationLengthNormal)
        /\ u8AnimationStateRGB < A.u8AnimationLengthRGB
        /\ hist.clkR < TotalDuration(A.psInstructionsRGB, A.u8AnimationLengthRGB)

\* C6: for each channel, once the clock the lookup ran on exceeded the total duration
\* of the active sequence, the next lookup of that channel yields step 0 with the
\* clock below the duration of step 0.
C6_WrapsToStepZero ==
  [][(op' = "cycle" /\ hist'.elapsed # 0) =>
      LET A == At(gasAnimations, u8CatalogIndex')
      IN  /\ hist.preN > TotalDuration(A.psInstructionsNormal, A.u8AnimationLengthNormal)
             => /\ u8AnimationState' = 0
                /\ hist'.clkN < At(A.psInstructionsNormal, 0).u16TimingMs
          /\ hist.preR > TotalDuration(A.psInstructionsRGB, A.u8AnimationLengthRGB)
             => /\ u8AnimationStateRGB' = 0
                /\ hist'.clkR < At(A.psInstructionsRGB, 0).u16TimingMs]_vars

\* v after n additions of the signed delta d, each leaving 0..15 wrapping to 0.
RECURSIVE AddedTimes(_, _, _)
AddedTimes(v, d, n) ==
  IF n = 0 THEN v
  ELSE LET w == AddedTimes(v, d, n - 1) + I8(d)
       IN  IF w < 0 \/ w > 15 THEN 0 ELSE w

\* C7: a matrix step with a Repeat opcode and operand N is executed exactly N + 1
\* times before it is marked executed; with opcode Add|Repeat every element ends at
\* v + d * (N + 1), wrapping to 0 at each addition: SoftFlashing's ramp (d = 1,
\* N = 14, v = 0) ends at 15.
C7_AddRepeatAppliedNPlusOneTimes ==
  LET e == hist.exec
      N == e.ins.u8AnimationOperand
  IN  (e.step # NO_STATE /\ HasBit(e.ins.u8AnimationOpcode, REPEAT)) =>
        /\ e.count <= N + 1
        /\ e.done <=> (e.count = N + 1)
        /\ e.ins.u8AnimationOpcode = ADD + REPEAT =>
             \A i \in 1..LEDS_NUM :
               gau8LEDBrightness[i] = AddedTimes(e.base[i], e.ins.au8Brightness[i], e.count)
        /\ (u8AnimationIndex = 1 /\ e.step = 1 /\ e.done) =>
             /\ e.count = 15
             /\ \A i \in 1..LEDS_NUM : e.base[i] = 0 /\ gau8LEDBrightness[i] = 15

\* SoftFlashing's Add|Repeat ramp has just been marked executed.
C7_Witness ==
  /\ u8AnimationIndex = 1
  /\ hist.exec.step = 1
  /\ hist.exec.ins.u8AnimationOpcode = ADD + REPEAT
  /\ hist.exec.ins.u8AnimationOperand = 14
  /\ hist.exec.done
  /\ u8LastState = 1
  /\ u8RepetitionCounter = 0

\* C8: with Animation_Cycle called in every millisecond, a matrix Repeat step with
\* operand N and duration D first executed at time T rewinds the clock exactly N
\* times, and the following step is first resolved at T + (N + 1) * D.
C8_RepeatTakesNPlusOneDurations ==
  LET p == hist.prev
      e == hist.exec
      N == p.ins.u8AnimationOperand
      D == p.ins.u16TimingMs
  IN  /\ (e.step # NO_STATE /\ HasBit(e.ins.u8AnimationOpcode, REPEAT)) =>
           /\ e.rewinds = (IF e.done THEN e.count - 1 ELSE e.count)
           /\ e.doneMs = U16(e.firstMs + (e.count - 1) * e.ins.u16TimingMs)
      /\ (p.step # NO_STATE /\ HasBit(p.ins.u8AnimationOpcode, REPEAT) /\ e.step # NO_STATE) =>
           /\ p.done
           /\ p.rewinds = N
           /\ e.firstMs = U16(p.firstMs + (N + 1) * D)

\* The step after a Repeat step has just been resolved for the first time.
C8_Witness ==
  /\ op = "cycle"
  /\ hist.prev.step # NO_STATE
  /\ HasBit(hist.prev.ins.u8AnimationOpcode, REPEAT)
  /\ hist.prev.ins.u8AnimationOperand > 1
  /\ hist.exec.count = 1
  /\ hist.exec.firstMs = gu16TimerMS
  /\ u8AnimationState # hist.prev.step

\* C4: from an erased arena, after fewer (Animation_Set, Persist_Save) pairs than the
\* arena has slots, in any interleaving with power cycles, a power cycle followed by
\* Persist_Init restores the index written by the most recent Persist_Save (and 0
\* when nothing was saved), and the next save goes to the slot after it.
C4_InitRestoresLastSave ==
  (op = "boot" /\ hist.nSaves < EEPROM_SIZE \div SIZEOF_PERSIST) =>
    /\ u8AnimationIndex = (IF hist.nSaves > 0 THEN hist.lastSaved ELSE 0)
    /\ gpsNextSaveSlot = EEPROM_BASEADDRESS + SIZEOF_PERSIST * hist.nSaves

\* A boot on an arena with one free slot left, after a save that changed the index
\* and an earlier power cycle.
C4_Witness ==
  /\ op = "boot"
  /\ hist.nBoots >= 2
  /\ hist.nSaves = (EEPROM_SIZE \div SIZEOF_PERSIST) - 1
  /\ hist.lastSaved = NUM_ANIMATIONS - 1
  /\ u8AnimationIndex = NUM_ANIMATIONS - 1
  /\ IAP_ReadByte(eeprom, gpsNextSaveSlot - 2 * SIZEOF_PERSIST) = 1

(***************************************************************************)
(* Bit errors in a saved record.  The arena holds two records, written by  *)
(* IAP_Write as Persist_Save writes them: an older one in the base slot    *)
(* and the latest one in the slot after it.                                *)
(***************************************************************************)
\* Index bytes of the latest record.
FlipIndices == 0..255

\* Bits of the three bytes of a record: 0..7 index, 8..15 and 16..23 the CRC bytes.
FlipBits == 0..23

\* The index of the older record: differs from the latest in more than one bit.
OlderOf(index) == U8(index + 3)

Record(index) == PersistBytes([u8AnimationIndex |-> index, u16CRC |-> Util_CRC16(<<index>>)])

FlipBit(byte, b) ==
  IF HasBit(byte, 2 ^ b) THEN byte - 2 ^ b ELSE byte + 2 ^ b

ArenaTwoRecords(index) ==
  IAP_Write(IAP_Write(ErasedArena, EEPROM_BASEADDRESS, Record(OlderOf(index))),
            EEPROM_BASEADDRESS + SIZEOF_PERSIST, Record(index))

InitFlip ==
  \E index \in FlipIndices :
    LET loaded == Persist_Init(ArenaTwoRecords(index))
    IN  /\ Boot(ArenaTwoRecords(index), loaded.u8AnimationIndex, loaded.gpsNextSaveSlot) /\ MainInit(0)
        /\ hist = [HistInit EXCEPT !.nPre = 2, !.nSaves = 2, !.lastSaved = index,
                                   !.older = OlderOf(index)]

\* One bit of the latest record changes in the EEPROM.
BitError ==
  /\ ~hist.flipped
  /\ \E b \in FlipBits :
       LET u16Address == EEPROM_BASEADDRESS + SIZEOF_PERSIST + (b \div 8)
       IN  /\ eeprom' = Put(eeprom, IAP_Offset(u16Address),
                            FlipBit(IAP_ReadByte(eeprom, u16Address), b % 8))
           /\ arg' = b
           /\ hist' = [hist EXCEPT !.flipped = TRUE, !.flipBit = b]
  /\ op' = "flip"
  /\ UNCHANGED <<gu16TimerMS, engine, locals, gpsNextSaveSlot>>
  /\ UNCHANGED <<stepper, driver, gu16SynchronizedTimer, mainloop>>

NextFlip == BitError \/ PowerCycle

SpecFlip == InitFlip /\ [][NextFlip]_vars

\* C11: a record with a valid CRC in which one bit (of any of its 3 bytes) has
\* flipped fails the CRC comparison of SearchForLatestSave, and Persist_Init does not
\* select it: the index loaded is that of the older record.
C11_BitFlipInvalidatesRecord ==
  LET psSave == EEPROM_BASEADDRESS + SIZEOF_PERSIST
      sLocalCopy == PersistFromBytes(IAP_Read(eeprom, psSave, SIZEOF_PERSIST))
  IN  /\ (op = "flip") => sLocalCopy.u16CRC # Util_CRC16(<<sLocalCopy.u8AnimationIndex>>)
      /\ (op = "boot" /\ hist.flipped) =>
           /\ u8AnimationIndex = hist.older
           /\ u8AnimationIndex # sLocalCopy.u8AnimationIndex

\* Boot after bit 3 of the index byte of the record of animation 17 has flipped.
C11_Witness ==
  /\ op = "boot"
  /\ hist.flipped
  /\ hist.flipBit = 3
  /\ hist.lastSaved = NUM_ANIMATIONS - 1
  /\ IAP_ReadByte(eeprom, EEPROM_BASEADDRESS + SIZEOF_PERSIST) = 25
  /\ u8AnimationIndex = 20

(***************************************************************************)
(* The save arena with arbitrary content.  At the first power-up, and      *)
(* after bit errors or interrupted writes, the arena holds more than the   *)
(* saves of an erased arena: the runs below start from an arena with some  *)
(* saves followed by three slots that are erased, garbage or an old valid  *)
(* record.                                                                 *)
(***************************************************************************)
\* Saves in the arena at the start: none; one (the next slots lie inside page 0);
\* up to the slot before the one straddling the first page boundary; up to that slot.
ArenaSaves == {0, 1, 169, 170}

\* E: erased, G: garbage (not erased, bad CRC), V: a valid record of animation 5,
\* Z: all three bytes 0x00.
ArenaPatterns ==
  {<<"E", "E", "E">>, <<"G", "E", "E">>, <<"E", "G", "E">>, <<"G", "G", "E">>,
   <<"E", "V", "E">>, <<"G", "V", "E">>, <<"E", "G", "V">>, <<"V", "G", "E">>,
   <<"Z", "E", "E">>, <<"Z", "Z", "Z">>}

\* The arena filled up to its last slot, and filled up to a garbage last slot.
ArenaFull == {<<EEPROM_SIZE \div SIZEOF_PERSIST, <<"E", "E", "E">>>>,
              <<(EEPROM_SIZE \div SIZEOF_PERSIST) - 1, <<"G", "E", "E">>>>}

ArenaStarts == (ArenaSaves \X ArenaPatterns) \cup ArenaFull

PatternSlot(kind) ==
  IF kind = "V" THEN Record(5) ELSE IF kind = "Z" THEN <<0, 0, 0>> ELSE <<90, 165, 60>>

RECURSIVE PlacePattern(_, _, _, _)
PlacePattern(mem, k, pat, i) ==
  IF i > Len(pat) THEN mem
  ELSE PlacePattern(IF pat[i] = "E" THEN mem
                    ELSE IAP_Write(mem, EEPROM_BASEADDRESS + SIZEOF_PERSIST * (k + i - 1),
                                   PatternSlot(pat[i])),
                    k, pat, i + 1)

ArenaWith(k, pat) == PlacePattern(ArenaAfterSaves(k), k, pat, 1)

InitArena ==
  \E start \in ArenaStarts :
    LET mem == ArenaWith(start[1], start[2])
        loaded == Persist_Init(mem)
    IN  /\ Boot(mem, loaded.u8AnimationIndex, loaded.gpsNextSaveSlot) /\ MainInit(0)
        /\ hist = [HistInit EXCEPT !.nPre = start[1], !.nSaves = start[1]]

NextArena == SetAndSave \/ PowerCycle

SpecArena == InitArena /\ [][NextArena]_vars

(***************************************************************************)
(* Power loss during Persist_Save, on an arena that was erased and has     *)
(* since taken some saves.                                                 *)
(***************************************************************************)
\* Saves in the arena at the start.
LossSaves == {0, 1, 169}

\* Bytes of the record programmed when power is lost during IAP_Write.
LossBytes == {1, 2}

\* Arguments of the Animation_Set call before the interrupted Persist_Save.
LossIndices == {1, NUM_ANIMATIONS - 1}

InitLoss ==
  \E k \in LossSaves :
    LET loaded == Persist_Init(ArenaAfterSaves(k))
    IN  /\ Boot(ArenaAfterSaves(k), loaded.u8AnimationIndex, loaded.gpsNextSaveSlot) /\ MainInit(0)
        /\ hist = [HistInit EXCEPT !.nPre = k, !.nSaves = k]

\* Power is lost inside the IAP_Write of Persist_Save, after n bytes of the record
\* were programmed; the device then boots again.
PowerLoss ==
  /\ hist.lossSlot = 0
  /\ hist.nSaves < hist.nPre + MaxSaves
  /\ \E index \in LossIndices, n \in LossBytes :
       LET current == IF index < NUM_ANIMATIONS THEN index ELSE u8AnimationIndex
           partial == IAP_Write(eeprom, gpsNextSaveSlot, SubSeq(Record(current), 1, n))
           loaded == Persist_Init(partial)
       IN  /\ eeprom' = partial
           /\ u8AnimationIndex' = loaded.u8AnimationIndex
           /\ gpsNextSaveSlot' = loaded.gpsNextSaveSlot
           /\ arg' = index
  /\ gu16TimerMS' = 0
  /\ gu16NormalTimer' = 0
  /\ gu16RGBTimer' = 0
  /\ gu16LastCall' = 0
  /\ u8LastState' = NO_STATE
  /\ u8RepetitionCounter' = 0
  /\ u8LastStateRGB' = NO_STATE
  /\ u8RepetitionCounterRGB' = 0
  /\ gau8LEDBrightness' = [i \in 1..LEDS_NUM |-> 0]
  /\ gau8RGBLEDs' = [i \in 1..NUM_RGBLED_COLORS |-> 0]
  /\ u8AnimationState' = 0
  /\ u8AnimationStateRGB' = 0
  /\ u8CatalogIndex' = 0
  /\ op' = "loss"
  /\ hist' = [hist EXCEPT !.lossSlot = gpsNextSaveSlot, !.lossIndex = u8AnimationIndex,
                          !.preIndex = u8AnimationIndex]
  /\ UNCHANGED <<stepper, driver, gu16SynchronizedTimer, mainloop>>

NextLoss == SetAndSave \/ PowerCycle \/ PowerLoss

SpecLoss == InitLoss /\ [][NextLoss]_vars

(***************************************************************************)
(* Properties of the save arena.                                           *)
(***************************************************************************)
NumSlots == EEPROM_SIZE \div SIZEOF_PERSIST

SlotAddress(s) == EEPROM_BASEADDRESS + SIZEOF_PERSIST * s

\* The stored CRC of slot s matches its index byte.
SlotValid(mem, s) ==
  LET bytes == IAP_Read(mem, SlotAddress(s), SIZEOF_PERSIST)
  IN  bytes[2] * 256 + bytes[3] = Util_CRC16(<<bytes[1]>>)

SlotErased(mem, s) ==
  \A i \in 0..(SIZEOF_PERSIST - 1) : IAP_ReadByte(mem, SlotAddress(s) + i) = 255

\* Slots with a programmed byte lie in the programmed prefix of the arena; an erased
\* slot has no valid CRC.
ValidSlots(mem) ==
  {s \in 0..(NumSlots - 1) : SIZEOF_PERSIST * s < Len(mem) /\ SlotValid(mem, s)}

\* First erased slot among lo..(NumSlots - 1), NumSlots if there is none.
FirstErasedFrom(mem, lo) ==
  LET gaps == {s \in lo..(NumSlots - 1) :
                 SIZEOF_PERSIST * s >= Len(mem) \/ SlotErased(mem, s)}
  IN  IF gaps = {} THEN NumSlots ELSE CHOOSE s \in gaps : \A t \in gaps : s <= t

Least(S) == CHOOSE s \in S : \A t \in S : s <= t

Greatest(S) == NumSlots - Least({NumSlots - s : s \in S})

\* The next-write position is the address of a slot of the arena.
CursorInArena ==
  \E s \in 0..(NumSlots - 1) : gpsNextSaveSlot = SlotAddress(s)

\* C12: every Persist_Save (with the next-write position inside the arena) writes to a
\* slot that is fully erased at the moment of writing: no slot is written twice
\* without an erase in between.
C12_WritesLandOnErasedSlots ==
  [][(op' = "save" /\ CursorInArena) => IsSaveBlockEmpty(eeprom, gpsNextSaveSlot)]_vars

\* C13: when Persist_Save returns, the slot at the new next-write position reads as
\* fully erased, whatever the arena held before.
C13_NextSlotErasedAfterSave ==
  (op = "save") => IsSaveBlockEmpty(eeprom, gpsNextSaveSlot)

\* C14: whenever Persist_Save (with the next-write position inside the arena) erases
\* a page, the record it has just written is still in its slot, byte for byte, when
\* Persist_Save returns.
C14_EraseKeepsWrittenRecord ==
  [][(op' = "save" /\ CursorInArena) =>
      LET written == IAP_Write(eeprom, gpsNextSaveSlot, Record(u8AnimationIndex'))
      IN  ~IsSaveBlockEmpty(written, gpsNextSaveSlot') =>
            IAP_Read(eeprom', gpsNextSaveSlot, SIZEOF_PERSIST)
              = IAP_Read(written, gpsNextSaveSlot, SIZEOF_PERSIST)]_vars

\* C15 as claimed: Persist_Init selects the last valid slot of the whole arena and
\* puts the next-write position on the first erased slot after it.
C15_SelectsLastValidOfArena ==
  (op = "boot" /\ ValidSlots(eeprom) # {}) =>
    LET last == Greatest(ValidSlots(eeprom))
        free == FirstErasedFrom(eeprom, last + 1)
    IN  /\ u8AnimationIndex = IAP_ReadByte(eeprom, SlotAddress(last))
        /\ free < NumSlots => gpsNextSaveSlot = SlotAddress(free)

\* C15 as amended: Persist_Init scans from the base and stops at the first erased
\* slot that follows a valid record; it selects the last valid slot before that stop
\* (corrupted slots in between are skipped) and the erased slot becomes the next-write
\* position; without such a slot the next-write position keeps its reset value.
C15_SelectsLastValidBeforeGap ==
  (op = "boot" /\ ValidSlots(eeprom) # {}) =>
    LET stop == FirstErasedFrom(eeprom, Least(ValidSlots(eeprom)) + 1)
        current == Greatest({v \in ValidSlots(eeprom) : v < stop})
    IN  /\ u8AnimationIndex = IAP_ReadByte(eeprom, SlotAddress(current))
        /\ gpsNextSaveSlot = (IF stop < NumSlots THEN SlotAddress(stop) ELSE 0)

\* A boot on an arena with a valid record, an erased slot and a later valid record,
\* and one with a corrupted slot between two valid records.
C15_Witness ==
  /\ op = "boot"
  /\ hist.nBoots >= 1
  /\ hist.nPre = 1
  /\ \/ /\ SlotErased(eeprom, 1) /\ SlotValid(eeprom, 2)
        /\ u8AnimationIndex = 0
        /\ gpsNextSaveSlot = SlotAddress(1)
     \/ /\ ~SlotErased(eeprom, 1) /\ ~SlotValid(eeprom, 1) /\ SlotValid(eeprom, 2)
        /\ u8AnimationIndex = 5
        /\ gpsNextSaveSlot = SlotAddress(3)

\* C16: when no slot of the arena validates, Persist_Init ends with index 0 and the
\* next-write position on the base slot.
C16_NoValidRecordDefaults ==
  (op = "boot" /\ ValidSlots(eeprom) = {}) =>
    /\ u8AnimationIndex = 0
    /\ gpsNextSaveSlot = EEPROM_BASEADDRESS

\* A power cycle on an arena that holds garbage and no valid record.
C16_Witness ==
  /\ op = "boot"
  /\ hist.nBoots >= 1
  /\ ValidSlots(eeprom) = {}
  /\ ~SlotErased(eeprom, 0)
  /\ ~SlotErased(eeprom, 1)
  /\ gpsNextSaveSlot = EEPROM_BASEADDRESS

\* C17: after a power loss that left an incomplete record (not erased, bad CRC),
\* Persist_Init restores the index of the last complete save (0 when there is none)
\* and puts the next-write position past the incomplete slot.
C17_InitSkipsIncompleteSlot ==
  (/\ op = "loss"
   /\ ~IsSaveBlockEmpty(eeprom, hist.lossSlot)
   /\ ~SlotValid(eeprom, (hist.lossSlot - EEPROM_BASEADDRESS) \div SIZEOF_PERSIST)) =>
    /\ u8AnimationIndex = (IF hist.nSaves > 0 THEN hist.lossIndex ELSE 0)
    /\ gpsNextSaveSlot > hist.lossSlot
(***************************************************************************)
(* Playback and saving side by side: main() runs Animation_Cycle in every  *)
(* pass of its loop, and the button handler calls Animation_Set and        *)
(* Persist_Save.                                                           *)
(***************************************************************************)
\* Values of the persisted index found at boot in these runs.
FrameIndices == {0, NUM_ANIMATIONS - 1}

\* Number of Persist_Save calls in a run.
MaxFrameSaves == 1

InitFrame ==
  /\ \E b \in FrameIndices : Boot(ErasedArena, b, EEPROM_BASEADDRESS) /\ MainInit(0)
  /\ hist = HistInit

\* main(): Persist_Save() in the button handler.
SaveCurrent ==
  /\ hist.nSaves < MaxFrameSaves
  /\ gu16TimerMS \in PressTimes
  /\ LET r == Persist_Save(eeprom, u8AnimationIndex, gpsNextSaveSlot)
     IN  /\ eeprom' = r.eeprom
         /\ gpsNextSaveSlot' = r.gpsNextSaveSlot
  /\ op' = "save"
  /\ arg' = 0
  /\ hist' = [hist EXCEPT !.nSaves = @ + 1, !.lastSaved = u8AnimationIndex,
                          !.preIndex = u8AnimationIndex, !.twice = FALSE]
  /\ UNCHANGED <<gu16TimerMS, engine, locals>>
  /\ UNCHANGED <<stepper, driver, gu16SynchronizedTimer, mainloop>>

NextFrame == Util_Interrupt \/ Animation_Cycle \/ SetAnimation \/ SaveCurrent

SpecFrame == InitFrame /\ [][NextFrame]_vars

\* C19: a step of Animation_Set or Animation_Cycle leaves the arena and the
\* next-write position as they are, and the arena content changes only in a step of
\* Persist_Save.
C19_OnlySaveTouchesArena ==
  [][/\ (op' \in {"set", "cycle"}) =>
          (eeprom' = eeprom /\ gpsNextSaveSlot' = gpsNextSaveSlot)
     /\ (eeprom' # eeprom) => (op' = "save")]_vars

\* An Animation_Set call after a save: the arena holds the record, the next-write
\* position is the second slot.
C19_Witness ==
  /\ op = "set"
  /\ arg = 1
  /\ hist.nSaves = 1
  /\ Len(eeprom) = SIZEOF_PERSIST
  /\ gpsNextSaveSlot = EEPROM_BASEADDRESS + SIZEOF_PERSIST
(***************************************************************************)
(* Animation_Cycle statement by statement, with the soft-PWM interrupt     *)
(* LED_Interrupt free to run between two statements.  The ADD and USOURCE  *)
(* loops of the matrix channel are followed one statement at a time; the   *)
(* rest of a call is one step.                                             *)
(***************************************************************************)
\* Values of the persisted index found at boot in these runs: gasSoftFlashing (ADD)
\* and gasStarLaunch (USOURCE).
IrqIndices == {1, 3}

\* Uptime (ms) until which a run is followed.
MaxIrqMs == 1001

InitIrq ==
  /\ \E b \in IrqIndices : Boot(ErasedArena, b, EEPROM_BASEADDRESS) /\ MainInit(0)
  /\ hist = HistInit

\* The millisecond interrupt, while the run is followed.
IrqTick ==
  /\ gu16TimerMS < MaxIrqMs
  /\ Util_Interrupt

\* The matrix step the call resolves, and whether it is executed.
Resolved ==
  LET d == U16(Util_GetTimerMs - gu16LastCall)
      A == AnimationAt(ClampIndex(u8AnimationIndex))
  IN  RestartNormal(A, LookupNormal(A, U16(gu16NormalTimer + d)),
                    U16(gu16NormalTimer + d), U16(gu16RGBTimer + d))

\* psInstructionsNormal[ u8AnimationState ] of the active animation.
CurrentInstruction ==
  At(AnimationAt(u8AnimationIndex).psInstructionsNormal, u8AnimationState)

\* The call executes a matrix instruction with an ADD or USOURCE loop.
Stepwise ==
  /\ TimeElapsed(Util_GetTimerMs)
  /\ u8LastState # Resolved.k
  /\ LET o == At(AnimationAt(ClampIndex(u8AnimationIndex)).psInstructionsNormal,
                 Resolved.k).u8AnimationOpcode
     IN  o # LOAD /\ (HasBit(o, ADD) \/ HasBit(o, USOURCE))

\* Where the call continues after the ADD loop, and after the USOURCE block.
AfterAdd == IF HasBit(CurrentInstruction.u8AnimationOpcode, USOURCE) THEN "usLeft" ELSE "finish"

\* A call that takes none of the two loops.
CycleAtOnce ==
  /\ pc = "idle"
  /\ ~Stepwise
  /\ Animation_Cycle

\* The clocks, the index check, the lookup and the restart, up to the opcode loops.
CycleEnter ==
  /\ pc = "idle"
  /\ Stepwise
  /\ u8AnimationIndex' = ClampIndex(u8AnimationIndex)
  /\ u8CatalogIndex' = ClampIndex(u8AnimationIndex)
  /\ u8AnimationState' = Resolved.k
  /\ gu16NormalTimer' = Resolved.nt
  /\ gu16RGBTimer' = Resolved.rt
  /\ u8Index' = 0
  /\ u8InnerIndex' = 0
  /\ pc' = IF HasBit(At(AnimationAt(ClampIndex(u8AnimationIndex)).psInstructionsNormal,
                        Resolved.k).u8AnimationOpcode, ADD)
           THEN "add" ELSE "usLeft"
  /\ op' = "enter"
  /\ arg' = 0
  /\ UNCHANGED <<gu16TimerMS, gu16LastCall, u8LastState, u8RepetitionCounter, u8LastStateRGB,
                 u8RepetitionCounterRGB, gau8LEDBrightness, gau8RGBLEDs,
                 u8AnimationStateRGB, persist, hist, driver, gu16SynchronizedTimer, mainloop>>

\* What a statement of Animation_Cycle leaves alone besides the matrix vector and
\* its own position.
StatementFrame ==
  /\ op' = "statement"
  /\ arg' = 0
  /\ UNCHANGED <<gu16TimerMS, u8AnimationIndex, gu16NormalTimer, gu16RGBTimer, gu16LastCall,
                 u8LastState, u8RepetitionCounter, u8LastStateRGB, u8RepetitionCounterRGB,
                 gau8RGBLEDs, locals, persist, hist, driver, gu16SynchronizedTimer, mainloop>>

\* gau8LEDBrightness[ u8Index ] += ...: the sum is stored; a build that keeps the sum
\* in a register stores the checked value only.
AddStore ==
  /\ pc = "add"
  /\ LET sum == U8(At(gau8LEDBrightness, u8Index)
                   + At(CurrentInstruction.au8Brightness, u8Index))
     IN  \E inRegister \in BOOLEAN :
           IF inRegister
           THEN /\ gau8LEDBrightness' =
                     Put(gau8LEDBrightness, u8Index, IF sum > 15 THEN 0 ELSE sum)
                /\ u8Index' = IF u8Index + 1 < LEDS_NUM THEN u8Index + 1 ELSE 0
                /\ pc' = IF u8Index + 1 < LEDS_NUM THEN "add" ELSE AfterAdd
           ELSE /\ gau8LEDBrightness' = Put(gau8LEDBrightness, u8Index, sum)
                /\ u8Index' = u8Index
                /\ pc' = "addCheck"
  /\ u8InnerIndex' = IF pc' = "usLeft" THEN 0 ELSE u8InnerIndex
  /\ StatementFrame

\* if( gau8LEDBrightness[ u8Index ] > 15u ) gau8LEDBrightness[ u8Index ] = 0u;
AddCheck ==
  /\ pc = "addCheck"
  /\ gau8LEDBrightness' =
       IF At(gau8LEDBrightness, u8Index) > 15
       THEN Put(gau8LEDBrightness, u8Index, 0) ELSE gau8LEDBrightness
  /\ u8Index' = IF u8Index + 1 < LEDS_NUM THEN u8Index + 1 ELSE 0
  /\ pc' = IF u8Index + 1 < LEDS_NUM THEN "add" ELSE AfterAdd
  /\ u8InnerIndex' = u8InnerIndex
  /\ StatementFrame

\* USOURCE, left side: gau8LEDBrightness[ u8Index ] += i8Change, for u8Index below
\* RIGHT_LEDS_START - 1; then the same for the last LED of the side.
USourceLeftChange ==
  /\ pc = "usLeft"
  /\ gau8LEDBrightness' =
       Put(gau8LEDBrightness, u8Index,
           U8(At(gau8LEDBrightness, u8Index) + I8(At(CurrentInstruction.au8Brightness, u8Index))))
  /\ u8Index' = u8Index
  /\ u8InnerIndex' = u8Index
  /\ pc' = IF u8Index < RIGHT_LEDS_START - 1 THEN "usLeftInner" ELSE "usLeftSaturate"
  /\ StatementFrame

\* gau8LEDBrightness[ u8InnerIndex + 1u ] += SaturateBrightness( &gau8LEDBrightness[ u8InnerIndex ] );
USourceLeftCarry ==
  /\ pc = "usLeftInner"
  /\ gau8LEDBrightness' = CarryStep(gau8LEDBrightness, u8InnerIndex, u8InnerIndex + 1)
  /\ IF u8InnerIndex + 1 < RIGHT_LEDS_START - 1
     THEN /\ u8InnerIndex' = u8InnerIndex + 1
          /\ u8Index' = u8Index
          /\ pc' = "usLeftInner"
     ELSE /\ u8InnerIndex' = u8InnerIndex + 1
          /\ u8Index' = u8Index + 1
          /\ pc' = "usLeft"
  /\ StatementFrame

\* SaturateBrightness( &gau8LEDBrightness[ RIGHT_LEDS_START - 1u ] );
USourceLeftSaturate ==
  /\ pc = "usLeftSaturate"
  /\ gau8LEDBrightness' =
       Put(gau8LEDBrightness, u8Index, SaturateBrightness(At(gau8LEDBrightness, u8Index)).v)
  /\ u8Index' = LEDS_NUM - 1
  /\ u8InnerIndex' = u8InnerIndex
  /\ pc' = "usRight"
  /\ StatementFrame

\* Right side: gau8LEDBrightness[ u8Index ] += i8Change, for u8Index above
\* RIGHT_LEDS_START; then the same for the first LED of the side.
USourceRightChange ==
  /\ pc = "usRight"
  /\ gau8LEDBrightness' =
       Put(gau8LEDBrightness, u8Index,
           U8(At(gau8LEDBrightness, u8Index) + I8(At(CurrentInstruction.au8Brightness, u8Index))))
  /\ u8Index' = u8Index
  /\ u8InnerIndex' = LEDS_NUM - 1
  /\ pc' = IF u8Index > RIGHT_LEDS_START THEN "usRightInner" ELSE "usRightSaturate"
  /\ StatementFrame

\* gau8LEDBrightness[ u8InnerIndex - 1u ] += SaturateBrightness( &gau8LEDBrightness[ u8InnerIndex ] );
USourceRightCarry ==
  /\ pc = "usRightInner"
  /\ gau8LEDBrightness' = CarryStep(gau8LEDBrightness, u8InnerIndex, u8InnerIndex - 1)
  /\ IF u8InnerIndex - 1 > RIGHT_LEDS_START
     THEN /\ u8InnerIndex' = u8InnerIndex - 1
          /\ u8Index' = u8Index
          /\ pc' = "usRightInner"
     ELSE /\ u8InnerIndex' = u8InnerIndex - 1
          /\ u8Index' = u8Index - 1
          /\ pc' = "usRight"
  /\ StatementFrame

\* SaturateBrightness( &gau8LEDBrightness[ RIGHT_LEDS_START ] );
USourceRightSaturate ==
  /\ pc = "usRightSaturate"
  /\ gau8LEDBrightness' =
       Put(gau8LEDBrightness, u8Index, SaturateBrightness(At(gau8LEDBrightness, u8Index)).v)
  /\ u8Index' = 0
  /\ u8InnerIndex' = 0
  /\ pc' = "finish"
  /\ StatementFrame

\* The rest of the call: DSOURCE and DIV, the repeat bookkeeping of the matrix
\* channel, the RGB channel, and the timestamp.
CycleLeave ==
  /\ pc = "finish"
  /\ LET A   == AnimationAt(u8AnimationIndex)
         ins == CurrentInstruction
         o   == ins.u8AnimationOpcode
         a5  == IF HasBit(o, DSOURCE)
                THEN DSourceOp(gau8LEDBrightness, ins.au8Brightness) ELSE gau8LEDBrightness
         bkN == Bookkeeping(ins, u8AnimationState, gu16NormalTimer, u8RepetitionCounter,
                            u8LastState)
         R   == RestartRGB(A, LookupRGB(A, gu16RGBTimer), gu16RGBTimer)
         doR == u8LastStateRGB # R.k
     IN  \E insR \in (IF doR THEN FetchRGB(A, R.k) ELSE {Instr(0, <<>>, 0, 0)}) :
           LET bkR == IF doR
                      THEN Bookkeeping(insR, R.k, R.rt, u8RepetitionCounterRGB, u8LastStateRGB)
                      ELSE [timer |-> R.rt, rep |-> u8RepetitionCounterRGB,
                            last |-> u8LastStateRGB, rewound |-> FALSE]
           IN  /\ gau8LEDBrightness' =
                    IF HasBit(o, DIV) THEN DivOp(a5, ins.au8Brightness, LEDS_NUM) ELSE a5
               /\ gau8RGBLEDs' = IF doR THEN EffectsRGB(gau8RGBLEDs, insR) ELSE gau8RGBLEDs
               /\ u8AnimationStateRGB' = R.k
               /\ gu16NormalTimer' = bkN.timer
               /\ u8RepetitionCounter' = bkN.rep
               /\ u8LastState' = bkN.last
               /\ gu16RGBTimer' = bkR.timer
               /\ u8RepetitionCounterRGB' = bkR.rep
               /\ u8LastStateRGB' = bkR.last
  /\ gu16LastCall' = Util_GetTimerMs
  /\ pc' = "idle"
  /\ op' = "cycle"
  /\ arg' = 0
  /\ UNCHANGED <<gu16TimerMS, u8AnimationIndex, u8AnimationState, u8CatalogIndex, u8Index,
                 u8InnerIndex, persist, hist, driver, gu16SynchronizedTimer, mainloop>>

\* The LED whose brightness LED_Interrupt compares for pin p on the given side.
LedOfPin(side, p) == IF side = 1 THEN p ELSE LEDS_NUM - 1 - p

\* LED_Interrupt: the counter, the side, and one comparison per pin.
LED_Interrupt ==
  /\ gu8PWMCounter' = IF U8(gu8PWMCounter + 1) = PWM_LEVELS THEN 0 ELSE U8(gu8PWMCounter + 1)
  /\ gbitSide' = IF U8(gu8PWMCounter + 1) = PWM_LEVELS THEN 1 - gbitSide ELSE gbitSide
  /\ ledPins' = [p \in 1..NUM_LED_PINS |->
                   At(gau8LEDBrightness, LedOfPin(gbitSide', p - 1)) > gu8PWMCounter']
  /\ UNCHANGED <<gu16TimerMS, engine, locals, persist, op, arg, hist, stepper,
                 gu16SynchronizedTimer, mainloop>>

NextIrq ==
  \/ IrqTick
  \/ CycleAtOnce
  \/ CycleEnter
  \/ AddStore
  \/ AddCheck
  \/ USourceLeftChange
  \/ USourceLeftCarry
  \/ USourceLeftSaturate
  \/ USourceRightChange
  \/ USourceRightCarry
  \/ USourceRightSaturate
  \/ CycleLeave
  \/ LED_Interrupt

SpecIrq == InitIrq /\ [][NextIrq]_vars

\* C18: every brightness element LED_Interrupt reads, whenever it runs, is within
\* [0,15].
C18_InterruptReadsInRange ==
  [][(gu8PWMCounter' # gu8PWMCounter) =>
       \A p \in 0..(NUM_LED_PINS - 1) :
         At(gau8LEDBrightness, LedOfPin(gbitSide', p)) <= 15]_vars
(***************************************************************************)
(* The firmware/ build: one synchronized animation clock, one instruction  *)
(* table per animation.  These runs play gasSoftFlashing (index 1 of its   *)
(* gasAnimations).                                                         *)
(***************************************************************************)
\* E_ANIMATION_OPCODE of firmware/src/animation.c where it differs from fw_py32.
USHIFT == 8

REPEAT_SYNC == 32

\* Index of gasSoftFlashing in gasAnimations of firmware/src/animation.c.
SOFT_FLASHING == 1

\* S_ANIMATION_INSTRUCTION of the firmware/ build: both brightness arrays in one entry.
InstrSync(t, b, rgb, o, n) ==
  [u16TimingMs |-> t, au8Brightness |-> b, au8RGBLEDBrightness |-> rgb,
   u8AnimationOpcode |-> o, u8AnimationOperand |-> n]

gasSoftFlashingSync ==
  << InstrSync(100, <<0, 0, 0, 0, 0, 0, 0, 0, 0, 0, 0, 0>>, <<0, 0, 0>>, LOAD, 0),
     InstrSync(50, <<1, 1, 1, 1, 1, 1, 1, 1, 1, 1, 1, 1>>, <<1, 0, 0>>, ADD + REPEAT_SYNC, 14),
     InstrSync(100, <<15, 15, 15, 15, 15, 15, 15, 15, 15, 15, 15, 15>>, <<15, 0, 0>>, LOAD, 0),
     InstrSync(50, <<255, 255, 255, 255, 255, 255, 255, 255, 255, 255, 255, 255>>,
               <<255, 0, 0>>, ADD + REPEAT_SYNC, 14) >>

\* USHIFT: each half of the matrix rotates towards the top.
UShiftOp(a) ==
  [i \in 1..LEDS_NUM |->
     IF i - 1 = 0 THEN At(a, RIGHT_LEDS_START - 1)
     ELSE IF i - 1 < RIGHT_LEDS_START THEN At(a, (i - 1) - 1)
     ELSE IF i - 1 = LEDS_NUM - 1 THEN At(a, RIGHT_LEDS_START)
     ELSE At(a, (i - 1) + 1)]

\* NUM_ANIMATIONS of firmware/src/animation.h.
NUM_ANIMATIONS_SYNC == 15

\* S_ANIMATION of the firmware/ build.
AnimationSync(instructions) ==
  [u8AnimationLength |-> Len(instructions), psInstructions |-> instructions]

\* gasAnimations[ NUM_ANIMATIONS ] of firmware/src/animation.c: eight initialisers; the
\* elements without an initialiser are zero (length 0, null pointer).  gasStarLaunch is
\* declared with 39 elements and has 38 initialisers, its last element is all zero.
gasAnimationsSync ==
  LET
    gasRetroVersionSync ==
      <<
        InstrSync(133, <<15, 0, 15, 0, 0, 15, 15, 0, 15, 0, 0, 15>>, <<15, 0, 0>>, LOAD, 0),
        InstrSync(133, <<0, 15, 0, 15, 15, 0, 0, 15, 0, 15, 15, 0>>, <<0, 0, 0>>, LOAD, 0),
        InstrSync(133, <<15, 0, 0, 0, 0, 0, 15, 0, 0, 0, 0, 0>>, <<0, 0, 0>>, LOAD, 0),
        InstrSync(133, <<0, 15, 0, 15, 15, 0, 0, 15, 0, 15, 15, 0>>, <<0, 0, 0>>, LOAD, 0),
        InstrSync(133, <<15, 0, 0, 0, 0, 0, 15, 0, 0, 0, 0, 0>>, <<0, 0, 0>>, LOAD, 0),
        InstrSync(133, <<0, 0, 0, 15, 0, 0, 0, 0, 0, 15, 0, 0>>, <<0, 0, 0>>, LOAD, 0),
        InstrSync(133, <<15, 0, 15, 0, 0, 15, 15, 0, 0, 15, 0, 15>>, <<15, 0, 0>>, LOAD, 0),
        InstrSync(133, <<0, 0, 0, 15, 0, 0, 0, 0, 0, 15, 0, 0>>, <<0, 0, 0>>, LOAD, 0)
      >>
    gasShootingStarSync ==
      <<
        InstrSync(100, <<5, 10, 15, 0, 0, 0, 0, 0, 0, 0, 0, 0>>, <<0, 0, 0>>, LOAD, 0),
        InstrSync(100, <<0, 0, 0, 0, 0, 0, 0, 0, 0, 0, 0, 0>>, <<0, 0, 0>>, RSHIFT + REPEAT_SYNC, 2),
        InstrSync(100, <<0, 0, 0, 0, 5, 10, 0, 0, 0, 0, 0, 0>>, <<15, 0, 0>>, LOAD, 0),
        InstrSync(100, <<0, 0, 0, 0, 0, 5, 15, 0, 0, 0, 0, 0>>, <<10, 0, 0>>, LOAD, 0),
        InstrSync(100, <<0, 0, 0, 0, 0, 0, 10, 15, 0, 0, 0, 0>>, <<5, 0, 0>>, LOAD, 0),
        InstrSync(100, <<0, 0, 0, 0, 0, 0, 5, 10, 15, 0, 0, 0>>, <<0, 0, 0>>, LOAD, 0),
        InstrSync(100, <<0, 0, 0, 0, 0, 0, 0, 0, 0, 0, 0, 0>>, <<0, 0, 0>>, RSHIFT + REPEAT_SYNC, 4)
      >>
    gasStarLaunchSync ==
      <<
        InstrSync(400, <<0, 0, 0, 0, 0, 0, 0, 0, 0, 0, 0, 0>>, <<0, 0, 0>>, LOAD, 0),
        InstrSync(200, <<5, 0, 0, 0, 0, 0, 0, 0, 0, 0, 0, 0>>, <<0, 0, 0>>, LOAD, 0),
        InstrSync(200, <<10, 0, 0, 0, 0, 0, 0, 0, 0, 0, 0, 5>>, <<0, 0, 0>>, LOAD, 0),
        InstrSync(200, <<15, 0, 0, 0, 0, 0, 0, 0, 0, 0, 0, 10>>, <<0, 0, 0>>, LOAD, 0),
        InstrSync(200, <<15, 5, 0, 0, 0, 0, 0, 0, 0, 0, 0, 15>>, <<0, 0, 0>>, LOAD, 0),
        InstrSync(200, <<15, 10, 0, 0, 0, 0, 0, 0, 0, 0, 5, 15>>, <<0, 0, 0>>, LOAD, 0),
        InstrSync(200, <<15, 15, 0, 0, 0, 0, 0, 0, 0, 0, 10, 15>>, <<0, 0, 0>>, LOAD, 0),
        InstrSync(200, <<15, 15, 5, 0, 0, 0, 0, 0, 0, 0, 15, 15>>, <<0, 0, 0>>, LOAD, 0),
        InstrSync(200, <<15, 15, 10, 0, 0, 0, 0, 0, 0, 5, 15, 15>>, <<0, 0, 0>>, LOAD, 0),
        InstrSync(200, <<15, 15, 15, 0, 0, 0, 0, 0, 0, 10, 15, 15>>, <<0, 0, 0>>, LOAD, 0),
        InstrSync(200, <<15, 15, 15, 5, 0, 0, 0, 0, 0, 15, 15, 15>>, <<0, 0, 0>>, LOAD, 0),
        InstrSync(200, <<15, 15, 15, 10, 0, 0, 0, 0, 5, 15, 15, 15>>, <<0, 0, 0>>, LOAD, 0),
        InstrSync(200, <<15, 15, 15, 15, 0, 0, 0, 0, 10, 15, 15, 15>>, <<0, 0, 0>>, LOAD, 0),
        InstrSync(200, <<15, 15, 15, 15, 5, 0, 0, 0, 15, 15, 15, 15>>, <<0, 0, 0>>, LOAD, 0),
        InstrSync(200, <<15, 15, 15, 15, 10, 0, 0, 5, 15, 15, 15, 15>>, <<0, 0, 0>>, LOAD, 0),
        InstrSync(200, <<15, 15, 15, 15, 15, 0, 0, 10, 15, 15, 15, 15>>, <<0, 0, 0>>, LOAD, 0),
        InstrSync(200, <<15, 15, 15, 15, 15, 5, 0, 15, 15, 15, 15, 15>>, <<0, 0, 0>>, LOAD, 0),
        InstrSync(200, <<15, 15, 15, 15, 15, 10, 5, 15, 15, 15, 15, 15>>, <<0, 0, 0>>, LOAD, 0),
        InstrSync(200, <<15, 15, 15, 15, 15, 15, 10, 15, 15, 15, 15, 15>>, <<0, 0, 0>>, LOAD, 0),
        InstrSync(400, <<15, 15, 15, 15, 15, 15, 15, 15, 15, 15, 15, 15>>, <<15, 15, 0>>, LOAD, 0),
        InstrSync(200, <<15, 15, 15, 15, 15, 15, 10, 15, 15, 15, 15, 15>>, <<15, 15, 0>>, LOAD, 0),
        InstrSync(200, <<15, 15, 15, 15, 15, 10, 5, 15, 15, 15, 15, 15>>, <<15, 15, 0>>, LOAD, 0),
        InstrSync(200, <<15, 15, 15, 15, 15, 5, 0, 15, 15, 15, 15, 15>>, <<15, 14, 0>>, LOAD, 0),
        InstrSync(200, <<15, 15, 15, 15, 15, 0, 0, 10, 15, 15, 15, 15>>, <<15, 13, 0>>, LOAD, 0),
        InstrSync(200, <<15, 15, 15, 15, 10, 0, 0, 5, 15, 15, 15, 15>>, <<15, 12, 0>>, LOAD, 0),
        InstrSync(200, <<15, 15, 15, 15, 5, 0, 0, 0, 15, 15, 15, 15>>, <<15, 11, 0>>, LOAD, 0),
        InstrSync(200, <<15, 15, 15, 15, 0, 0, 0, 0, 10, 15, 15, 15>>, <<15, 10, 0>>, LOAD, 0),
        InstrSync(200, <<15, 15, 15, 10, 0, 0, 0, 0, 5, 15, 15, 15>>, <<15, 9, 0>>, LOAD, 0),
        InstrSync(200, <<15, 15, 15, 5, 0, 0, 0, 0, 0, 15, 15, 15>>, <<15, 8, 0>>, LOAD, 0),
        InstrSync(200, <<15, 15, 15, 0, 0, 0, 0, 0, 0, 10, 15, 15>>, <<15, 7, 0>>, LOAD, 0),
        InstrSync(200, <<15, 15, 10, 0, 0, 0, 0, 0, 0, 5, 15, 15>>, <<15, 6, 0>>, LOAD, 0),
        InstrSync(200, <<15, 15, 5, 0, 0, 0, 0, 0, 0, 0, 15, 15>>, <<15, 5, 0>>, LOAD, 0),
        InstrSync(200, <<15, 15, 0, 0, 0, 0, 0, 0, 0, 0, 10, 15>>, <<12, 4, 0>>, LOAD, 0),
        InstrSync(200, <<15, 10, 0, 0, 0, 0, 0, 0, 0, 0, 5, 15>>, <<9, 3, 0>>, LOAD, 0),
        InstrSync(200, <<15, 5, 0, 0, 0, 0, 0, 0, 0, 0, 0, 15>>, <<6, 2, 0>>, LOAD, 0),
        InstrSync(200, <<15, 0, 0, 0, 0, 0, 0, 0, 0, 0, 0, 10>>, <<3, 1, 0>>, LOAD, 0),
        InstrSync(200, <<10, 0, 0, 0, 0, 0, 0, 0, 0, 0, 0, 5>>, <<0, 0, 0>>, LOAD, 0),
        InstrSync(200, <<5, 0, 0, 0, 0, 0, 0, 0, 0, 0, 0, 0>>, <<0, 0, 0>>, LOAD, 0),
        InstrSync(0, <<0, 0, 0, 0, 0, 0, 0, 0, 0, 0, 0, 0>>, <<0, 0, 0>>, LOAD, 0)
      >>
    gasGenericFlasherSync ==
      <<
        InstrSync(500, <<15, 15, 15, 15, 15, 15, 15, 15, 15, 15, 15, 15>>, <<7, 7, 7>>, LOAD, 0),
        InstrSync(500, <<0, 0, 0, 0, 0, 0, 0, 0, 0, 0, 0, 0>>, <<0, 0, 0>>, LOAD, 0)
      >>
    gasKITTSync ==
      <<
        InstrSync(200, <<0, 0, 0, 0, 0, 0, 0, 0, 0, 0, 0, 0>>, <<0, 0, 0>>, LOAD, 0),
        InstrSync(100, <<5, 0, 0, 0, 0, 0, 0, 0, 0, 0, 0, 5>>, <<0, 0, 0>>, LOAD, 0),
        InstrSync(100, <<10, 5, 0, 0, 0, 0, 0, 0, 0, 0, 5, 10>>, <<0, 0, 0>>, LOAD, 0),
        InstrSync(100, <<15, 10, 5, 0, 0, 0, 0, 0, 0, 5, 10, 15>>, <<0, 0, 0>>, LOAD, 0),
        InstrSync(100, <<10, 15, 10, 5, 0, 0, 0, 0, 5, 10, 15, 10>>, <<0, 0, 0>>, LOAD, 0),
        InstrSync(100, <<5, 10, 15, 10, 5, 0, 0, 5, 10, 15, 10, 5>>, <<0, 0, 0>>, LOAD, 0),
        InstrSync(100, <<0, 5, 10, 15, 10, 5, 5, 10, 15, 10, 5, 0>>, <<0, 0, 0>>, LOAD, 0),
        InstrSync(100, <<0, 0, 0, 0, 0, 241, 241, 0, 0, 0, 0, 0>>, <<5, 0, 0>>, ADD + USHIFT + REPEAT_SYNC, 2),
        InstrSync(100, <<0, 0, 0, 0, 0, 241, 241, 0, 0, 0, 0, 0>>, <<251, 0, 0>>, ADD + USHIFT + REPEAT_SYNC, 2),
        InstrSync(100, <<0, 0, 0, 0, 0, 5, 5, 0, 0, 0, 0, 0>>, <<0, 0, 0>>, LOAD, 0),
        InstrSync(100, <<0, 0, 0, 0, 5, 10, 10, 5, 0, 0, 0, 0>>, <<0, 0, 0>>, LOAD, 0),
        InstrSync(100, <<0, 0, 0, 5, 10, 15, 15, 10, 5, 0, 0, 0>>, <<0, 0, 0>>, LOAD, 0),
        InstrSync(100, <<0, 0, 5, 10, 15, 10, 10, 15, 10, 5, 0, 0>>, <<0, 0, 0>>, LOAD, 0),
        InstrSync(100, <<0, 5, 10, 15, 10, 5, 5, 10, 15, 10, 5, 0>>, <<0, 0, 0>>, LOAD, 0),
        InstrSync(100, <<5, 10, 15, 10, 5, 0, 0, 5, 10, 15, 10, 5>>, <<0, 0, 0>>, LOAD, 0),
        InstrSync(100, <<10, 15, 10, 5, 0, 0, 0, 0, 5, 10, 15, 10>>, <<0, 0, 0>>, LOAD, 0),
        InstrSync(100, <<15, 10, 5, 0, 0, 0, 0, 0, 0, 5, 10, 15>>, <<0, 0, 0>>, LOAD, 0),
        InstrSync(100, <<10, 5, 0, 0, 0, 0, 0, 0, 0, 0, 5, 10>>, <<0, 0, 0>>, LOAD, 0),
        InstrSync(100, <<5, 0, 0, 0, 0, 0, 0, 0, 0, 0, 0, 5>>, <<0, 0, 0>>, LOAD, 0)
      >>
    gasDiscoSync ==
      <<
        InstrSync(40, <<0, 15, 0, 15, 0, 15, 0, 15, 0, 15, 0, 15>>, <<15, 0, 15>>, LOAD, 0),
        InstrSync(40, <<0, 7, 0, 7, 0, 7, 0, 7, 0, 7, 0, 7>>, <<7, 0, 7>>, LOAD, 0),
        InstrSync(40, <<0, 4, 0, 4, 0, 4, 0, 4, 0, 4, 0, 4>>, <<4, 0, 4>>, LOAD, 0),
        InstrSync(40, <<0, 2, 0, 2, 0, 2, 0, 2, 0, 2, 0, 2>>, <<2, 0, 2>>, LOAD, 0),
        InstrSync(40, <<0, 1, 0, 1, 0, 1, 0, 1, 0, 1, 0, 1>>, <<1, 0, 1>>, LOAD, 0),
        InstrSync(100, <<0, 0, 0, 0, 0, 0, 0, 0, 0, 0, 0, 0>>, <<0, 0, 0>>, LOAD, 0),
        InstrSync(40, <<15, 0, 15, 0, 15, 0, 15, 0, 15, 0, 15, 0>>, <<0, 15, 0>>, LOAD, 0),
        InstrSync(40, <<7, 0, 7, 0, 7, 0, 7, 0, 7, 0, 7, 0>>, <<0, 7, 0>>, LOAD, 0),
        InstrSync(40, <<4, 0, 4, 0, 4, 0, 4, 0, 4, 0, 4, 0>>, <<0, 4, 0>>, LOAD, 0),
        InstrSync(40, <<2, 0, 2, 0, 2, 0, 2, 0, 2, 0, 2, 0>>, <<0, 2, 0>>, LOAD, 0),
        InstrSync(40, <<1, 0, 1, 0, 1, 0, 1, 0, 1, 0, 1, 0>>, <<0, 1, 0>>, LOAD, 0),
        InstrSync(100, <<0, 0, 0, 0, 0, 0, 0, 0, 0, 0, 0, 0>>, <<0, 0, 0>>, LOAD, 0)
      >>
    gasBlacknessSync ==
      <<
        InstrSync(65535, <<0, 0, 0, 0, 0, 0, 0, 0, 0, 0, 0, 0>>, <<0, 0, 0>>, LOAD, 0)
      >>
  IN  <<
        AnimationSync(gasRetroVersionSync),
        AnimationSync(gasSoftFlashingSync),
        AnimationSync(gasShootingStarSync),
        AnimationSync(gasStarLaunchSync),
        AnimationSync(gasGenericFlasherSync),
        AnimationSync(gasKITTSync),
        AnimationSync(gasDiscoSync),
        AnimationSync(gasBlacknessSync) >>
      \o [i \in 1..(NUM_ANIMATIONS_SYNC - 8) |-> AnimationSync(<<>>)]

\* psInstructions[ k ] read through the null pointer of an element without initialiser
\* (undefined behaviour): the bytes found there depend on the build, and are the same
\* at every read of a run.
GarbageSync ==
  << InstrSync(65535, [i \in 1..LEDS_NUM |-> 255], <<255, 255, 255>>, 255, 255),
     InstrSync(2, [i \in 1..LEDS_NUM |-> 0], <<0, 0, 0>>, LOAD, 0) >>

FetchSync(A, k) ==
  IF k < A.u8AnimationLength THEN {At(A.psInstructions, k)} ELSE {GarbageSync[hist.build]}

\* Arguments passed to Animation_Set of the firmware/ build: every index below
\* NUM_ANIMATIONS and two values out of range.
SetIndicesSync == (0..(NUM_ANIMATIONS_SYNC - 1)) \cup {NUM_ANIMATIONS_SYNC, 255}

\* Animation_Set of the firmware/ build.
Animation_SetSync(index) ==
  IF index < NUM_ANIMATIONS_SYNC
  THEN /\ u8AnimationIndex' = index
       /\ gu16SynchronizedTimer' = 0
       /\ u8LastState' = NO_STATE
       /\ u8RepetitionCounter' = 0
  ELSE UNCHANGED <<u8AnimationIndex, gu16SynchronizedTimer, u8LastState, u8RepetitionCounter>>

InitSoft ==
  /\ Boot(ErasedArena, SOFT_FLASHING, EEPROM_BASEADDRESS) /\ MainInit(0)
  /\ \E b \in 1..Len(GarbageSync) : hist = [HistInit EXCEPT !.build = b]

\* Animation_Cycle of the firmware/ build.
Animation_CycleSync ==
  LET u16TimeNow == Util_GetTimerMs
      idx  == IF u8AnimationIndex >= NUM_ANIMATIONS_SYNC THEN 0 ELSE u8AnimationIndex
      A    == gasAnimationsSync[idx + 1]
      seq  == A.psInstructions
      sync == U16(gu16SynchronizedTimer + U16(u16TimeNow - gu16LastCall))
      k    == Lookup(seq, Len(seq), 0, 0, sync)
      N    == IF k >= Len(seq) THEN [k |-> 0, t |-> 0, restarted |-> TRUE]
              ELSE [k |-> k, t |-> sync, restarted |-> FALSE]
  IN  /\ op' = "cycle"
      /\ arg' = 0
      /\ IF ~TimeElapsed(u16TimeNow)
         THEN UNCHANGED <<engine, locals, gu16SynchronizedTimer, hist>>
         ELSE /\ u8AnimationIndex' = idx
              /\ u8AnimationState' = N.k
              /\ IF u8LastState # N.k
                 THEN \E ins \in FetchSync(A, N.k) :
                   LET o  == ins.u8AnimationOpcode
                       a1 == IF HasBit(o, ADD)
                             THEN AddOp(gau8LEDBrightness, ins.au8Brightness, LEDS_NUM)
                             ELSE gau8LEDBrightness
                       a2 == IF HasBit(o, RSHIFT) THEN RShiftOp(a1) ELSE a1
                       a3 == IF HasBit(o, LSHIFT) THEN LShiftOp(a2) ELSE a2
                       a4 == IF HasBit(o, USHIFT) THEN UShiftOp(a3) ELSE a3
                       bk == IF o = LOAD \/ ~HasBit(o, REPEAT_SYNC)
                             THEN [timer |-> N.t, rep |-> u8RepetitionCounter, last |-> N.k]
                             ELSE IF u8RepetitionCounter = 0
                                  THEN RepeatFirst(ins, N.k, N.t, u8RepetitionCounter,
                                                   u8LastState)
                                  ELSE RepeatAgain(ins, N.k, N.t, u8RepetitionCounter,
                                                   u8LastState)
                   IN /\ gau8LEDBrightness' = IF o = LOAD THEN ins.au8Brightness ELSE a4
                      /\ gau8RGBLEDs' =
                           IF o = LOAD THEN ins.au8RGBLEDBrightness
                           ELSE IF HasBit(o, ADD)
                           THEN AddOp(gau8RGBLEDs, ins.au8RGBLEDBrightness, NUM_RGBLED_COLORS)
                           ELSE gau8RGBLEDs
                      /\ gu16SynchronizedTimer' = bk.timer
                      /\ u8RepetitionCounter' = bk.rep
                      /\ u8LastState' = bk.last
                 ELSE /\ gu16SynchronizedTimer' = N.t
                      /\ UNCHANGED <<gau8LEDBrightness, gau8RGBLEDs, u8RepetitionCounter,
                                     u8LastState>>
              /\ gu16LastCall' = u16TimeNow
              /\ hist' = [hist EXCEPT !.nLoops = @ + (IF N.restarted THEN 1 ELSE 0)]
              /\ UNCHANGED <<gu16NormalTimer, gu16RGBTimer, u8LastStateRGB,
                             u8RepetitionCounterRGB, u8AnimationStateRGB, u8CatalogIndex>>
      /\ UNCHANGED <<gu16TimerMS, persist, stepper, driver, mainloop>>

\* A caller of Animation_Set of the firmware/ build (button press or radio request).
SetAnimationSync ==
  /\ hist.nSets < MaxSets
  /\ gu16TimerMS \in PressTimes
  /\ \E index \in SetIndicesSync :
       /\ Animation_SetSync(index)
       /\ op' = "set"
       /\ arg' = index
       /\ hist' = [hist EXCEPT !.nSets = @ + 1, !.msAfterSet = 0, !.preIndex = u8AnimationIndex]
  /\ UNCHANGED <<gu16TimerMS, gu16NormalTimer, gu16RGBTimer, gu16LastCall, u8LastStateRGB,
                 u8RepetitionCounterRGB, gau8LEDBrightness, gau8RGBLEDs, locals, persist,
                 stepper, driver, mainloop>>

NextCatalog == Util_Interrupt \/ Animation_CycleSync \/ SetAnimationSync

SpecCatalog == InitSoft /\ [][NextCatalog]_vars

NextSoft == Util_Interrupt \/ Animation_CycleSync

SpecSoft == InitSoft /\ [][NextSoft]_vars

\* Every matrix element has the value v.
AllElements(v) == \A i \in 1..LEDS_NUM : gau8LEDBrightness[i] = v

\* The sequence has just restarted: the clock is back at 0 and step 0 was executed.
Restarted ==
  /\ gu16SynchronizedTimer = 0
  /\ u8AnimationState = 0
  /\ u8LastState = 0

AllOff ==
  /\ \A i \in 1..LEDS_NUM : gau8LEDBrightness[i] = 0
  /\ \A i \in 1..NUM_RGBLED_COLORS : gau8RGBLEDs[i] = 0

\* C21: the last catalog slot (index NUM_ANIMATIONS-1) is an all-off animation: in the
\* Animation_Cycle call that makes the first step transition after
\* Animation_Set(NUM_ANIMATIONS-1), every matrix element and every accent element
\* becomes 0.
C21_LastSlotIsAllOff ==
  [][(/\ op = "set"
      /\ arg = NUM_ANIMATIONS - 1
      /\ op' = "cycle"
      /\ u8LastState' # NO_STATE) => AllOff']_vars

(***************************************************************************)
(* The main loop under its scheduling: the timer interrupt fires every     *)
(* millisecond, and main() calls Animation_Cycle in an endless loop, so     *)
(* that gu16LastCall catches up with the millisecond clock again and again. *)
(***************************************************************************)
SpecLive ==
  /\ Init
  /\ [][Util_Interrupt \/ Animation_Cycle]_vars
  /\ WF_vars(Util_Interrupt)
  /\ []<>(gu16LastCall = gu16TimerMS)

\* The matrix channel resolved the last step of its sequence / step 0.
NormalAtLastStep ==
  op = "cycle" /\ u8AnimationState + 1 = At(gasAnimations, u8CatalogIndex).u8AnimationLengthNormal

NormalAtStepZero == op = "cycle" /\ u8AnimationState = 0 /\ u8LastState = 0

\* The accent channel resolved the last step of its sequence / step 0.
RGBAtLastStep ==
  op = "cycle" /\ u8AnimationStateRGB + 1 = At(gasAnimations, u8CatalogIndex).u8AnimationLengthRGB

RGBAtStepZero == op = "cycle" /\ u8AnimationStateRGB = 0

\* C22: with the clock advancing and Animation_Cycle called every millisecond, each
\* channel's sequence loops: the channel never resolves an index outside its own
\* sequence, and whenever it has resolved the last step of its sequence it later
\* resolves step 0 again.
C22_ChannelsLoop ==
  /\ [](u8AnimationState < At(gasAnimations, u8CatalogIndex).u8AnimationLengthNormal)
  /\ [](u8AnimationStateRGB < At(gasAnimations, u8CatalogIndex).u8AnimationLengthRGB)
  /\ (NormalAtLastStep ~> NormalAtStepZero)
  /\ (RGBAtLastStep ~> RGBAtStepZero)

\* The matrix channel alone does loop.
NormalChannelLoops ==
  /\ [](u8AnimationState < At(gasAnimations, u8CatalogIndex).u8AnimationLengthNormal)
  /\ (NormalAtLastStep ~> NormalAtStepZero)

(***************************************************************************)
(* The step lookup as a function of the channel clock.                     *)
(***************************************************************************)
\* k is the index with d_0 + ... + d_(k-1) <= e < d_0 + ... + d_k in the sequence ins.
InStep(ins, k, e) ==
  /\ U16(TotalDuration(ins, k)) <= e
  /\ e < U16(TotalDuration(ins, k + 1))

\* C23: the step lookup of a channel with clock e returns the unique index k with
\* d_0 + ... + d_(k-1) <= e < d_0 + ... + d_k when e is below the total duration of
\* the sequence, and otherwise reports exhaustion (the matrix channel restarts, the
\* accent channel is left with the sequence length as index).
C23_LookupFindsStep ==
  [][(op' = "cycle" /\ hist'.elapsed # 0) =>
      LET A  == At(gasAnimations, u8CatalogIndex')
          nN == A.u8AnimationLengthNormal
          nR == A.u8AnimationLengthRGB
      IN  /\ IF hist'.preN < U16(TotalDuration(A.psInstructionsNormal, nN))
             THEN /\ hist'.nLoops = hist.nLoops
                  /\ \A k \in 0..(nN - 1) :
                       InStep(A.psInstructionsNormal, k, hist'.preN) <=> k = u8AnimationState'
             ELSE hist'.nLoops = hist.nLoops + 1
          /\ IF hist'.preR < U16(TotalDuration(A.psInstructionsRGB, nR))
             THEN \A k \in 0..(nR - 1) :
                    InStep(A.psInstructionsRGB, k, hist'.preR) <=> k = u8AnimationStateRGB'
             ELSE u8AnimationStateRGB' = nR]_vars

\* Both outcomes happen: a lookup ended inside the sequence at a step other than 0,
\* and the accent lookup ran through its whole sequence.
C23_Witness ==
  /\ op = "cycle"
  /\ hist.elapsed # 0
  /\ u8AnimationState > 0
  /\ u8AnimationStateRGB = At(gasAnimations, u8CatalogIndex).u8AnimationLengthRGB

(***************************************************************************)
(* The restart of the animation.                                           *)
(***************************************************************************)
\* C24: in an Animation_Cycle call in which the matrix walk exhausts its sequence, both
\* channel clocks are 0 right after the restart and the accent channel resolves its
\* step 0 in the same call; in a call without matrix exhaustion the matrix clock is
\* not reset, whatever the accent channel does: it keeps the value the walk ran on.
C24_MatrixRestartResetsBoth ==
  [][(op' = "cycle" /\ hist'.elapsed # 0) =>
      IF hist'.nLoops = hist.nLoops + 1
      THEN /\ hist'.clkN = 0
           /\ hist'.preR = 0
           /\ hist'.clkR = 0
           /\ u8AnimationState' = 0
           /\ u8AnimationStateRGB' = 0
      ELSE /\ hist'.nLoops = hist.nLoops
           /\ hist'.clkN = hist'.preN
           /\ hist'.clkN = U16(gu16NormalTimer + hist'.elapsed)]_vars

\* A restart happened while the accent clock was running, and the accent walk had left
\* step 0 before it.
C24_Witness ==
  /\ op = "cycle"
  /\ hist.nLoops = 1
  /\ hist.preN > 0
  /\ hist.clkR = 0
  /\ u8AnimationStateRGB = 0
  /\ u8LastStateRGB = 0
  /\ hist.elapsed # 0
  /\ At(gasAnimations, u8CatalogIndex).u8AnimationLengthRGB > 1

(***************************************************************************)
(* Calls that find the step already executed.                              *)
(***************************************************************************)
\* C25: in an Animation_Cycle call in which a channel's resolved step equals its last
\* executed step, the channel's brightness values, repeat counter and last-executed
\* cursor are unchanged; the channel clock is left at the advanced value and the
\* last-call timestamp becomes the current time.
C25_SameStepChangesNothing ==
  [][(op' = "cycle" /\ hist'.elapsed # 0) =>
      /\ gu16LastCall' = gu16TimerMS
      /\ u8AnimationState' = u8LastState =>
           /\ gau8LEDBrightness' = gau8LEDBrightness
           /\ u8RepetitionCounter' = u8RepetitionCounter
           /\ u8LastState' = u8LastState
           /\ gu16NormalTimer' = hist'.clkN
      /\ u8AnimationStateRGB' = u8LastStateRGB =>
           /\ gau8RGBLEDs' = gau8RGBLEDs
           /\ u8RepetitionCounterRGB' = u8RepetitionCounterRGB
           /\ u8LastStateRGB' = u8LastStateRGB
           /\ gu16RGBTimer' = hist'.clkR]_vars

\* A call that resolved the executed step of both channels, of which the matrix step is
\* one that changes the vector when executed.
C25_Witness ==
  /\ op = "cycle"
  /\ hist.elapsed # 0
  /\ u8AnimationState = u8LastState
  /\ u8AnimationStateRGB = u8LastStateRGB
  /\ hist.exec.done
  /\ hist.exec.step = u8AnimationState
  /\ HasBit(hist.exec.ins.u8AnimationOpcode, RSHIFT)
  /\ gu16TimerMS > hist.exec.doneMs

(***************************************************************************)
(* Execution of one matrix instruction on a given vector: the block of     *)
(* Animation_Cycle that runs when the resolved step is not the one last    *)
(* executed, for instructions and vectors beyond those of the catalog.     *)
(***************************************************************************)
\* Executions of the instruction in one run.
MaxExec == 12

\* Matrix vectors in [0,15]^12: uniform, ascending and scattered ones.
OpsVectors ==
  { [i \in 1..LEDS_NUM |-> (v + m * i) % 16] : v \in 0..15, m \in {0, 1, 7} }

\* Operand vectors of signed deltas in [-15,15], stored as bytes.
OpsDeltas ==
  { [i \in 1..LEDS_NUM |-> U8(((d + s * i) % 31) - 15)] : d \in 0..30, s \in {0, 1, 11} }

\* ADD with every byte as delta, on every element value.
AddInputs ==
  { [a |-> [i \in 1..LEDS_NUM |-> (v + i) % 16],
     ins |-> Instr(1, [i \in 1..LEDS_NUM |-> (d + 21 * i) % 256], ADD, 0)] :
    v \in 0..15, d \in 0..255 }

\* Rotations: once, both in one instruction, and repeated 12 times.
RotateInputs ==
  { [a |-> [i \in 1..LEDS_NUM |-> (v + m * i) % 16],
     ins |-> Instr(1, [i \in 1..LEDS_NUM |-> 0], o, IF HasBit(o, REPEAT) THEN MaxExec - 1 ELSE 0)] :
    v \in 0..15, m \in {1, 7},
    o \in {RSHIFT, LSHIFT, RSHIFT + LSHIFT, RSHIFT + REPEAT, LSHIFT + REPEAT} }

\* USOURCE and DSOURCE with deltas in [-15,15].
SourceInputs ==
  { [a |-> x, ins |-> Instr(1, b, o, 0)] : x \in OpsVectors, b \in OpsDeltas,
                                            o \in {USOURCE, DSOURCE} }

\* Every opcode byte, with operands that act as deltas and as divisors.
MixedInputs ==
  { [a |-> x, ins |-> Instr(1, b, o, 1)] :
    x \in { [i \in 1..LEDS_NUM |-> (v + 7 * i) % 16] : v \in {0, 3, 9, 15} },
    b \in { [i \in 1..LEDS_NUM |-> U8(((d + 11 * i) % 31) - 15)] : d \in {0, 13, 17, 30} },
    o \in 0..255 }

\* The engine with a vector in gau8LEDBrightness and an instruction about to execute,
\* both drawn from the given inputs.
InitOpsFrom(inputs) ==
  \E c \in inputs :
    /\ gu16TimerMS = 0
    /\ eeprom = ErasedArena
    /\ u8AnimationIndex = 0
    /\ gpsNextSaveSlot = EEPROM_BASEADDRESS
    /\ gu16NormalTimer = c.ins.u16TimingMs
    /\ gu16RGBTimer = 0
    /\ gu16LastCall = 0
    /\ u8LastState = NO_STATE
    /\ u8RepetitionCounter = 0
    /\ u8LastStateRGB = NO_STATE
    /\ u8RepetitionCounterRGB = 0
    /\ gau8LEDBrightness = c.a
    /\ gau8RGBLEDs = [i \in 1..NUM_RGBLED_COLORS |-> 0]
    /\ u8AnimationState = 0
    /\ u8AnimationStateRGB = 0
    /\ u8CatalogIndex = 0
    /\ pc = "idle"
    /\ u8Index = 0
    /\ u8InnerIndex = 0
    /\ gu8PWMCounter = 0
    /\ gbitSide = 0
    /\ ledPins = [i \in 1..NUM_LED_PINS |-> FALSE]
    /\ gu16SynchronizedTimer = 0
    /\ MainInit(0)
    /\ op = "boot"
    /\ arg = 0
    /\ hist = [HistInit EXCEPT !.exec = [NoExec EXCEPT !.ins = c.ins, !.base = c.a],
                               !.prev = [NoExec EXCEPT !.base = c.a]]

InitOps == InitOpsFrom(AddInputs \cup RotateInputs \cup SourceInputs \cup MixedInputs)

\* if( u8LastState != u8AnimationState ) { ... }: the instruction executes, its effects
\* on the vector first, then the repeat bookkeeping.  hist.exec.base is the vector
\* before this execution, hist.prev.base the vector before the first one.
ExecuteUpTo(n) ==
  /\ hist.exec.count < n
  /\ NextInstruction(u8LastState, u8AnimationState)
  /\ LET ins == hist.exec.ins
         bk  == Bookkeeping(ins, u8AnimationState, gu16NormalTimer, u8RepetitionCounter,
                            u8LastState)
     IN  /\ gau8LEDBrightness' = EffectsNormal(gau8LEDBrightness, ins)
         /\ gu16NormalTimer' = bk.timer
         /\ u8RepetitionCounter' = bk.rep
         /\ u8LastState' = bk.last
  /\ op' = "exec"
  /\ hist' = [hist EXCEPT !.exec.count = @ + 1, !.exec.base = gau8LEDBrightness]
  /\ UNCHANGED <<gu16TimerMS, u8AnimationIndex, gu16RGBTimer, gu16LastCall, u8LastStateRGB,
                 u8RepetitionCounterRGB, gau8RGBLEDs, locals, persist, arg>>
  /\ UNCHANGED <<stepper, driver, gu16SynchronizedTimer, mainloop>>

ExecuteInstruction == ExecuteUpTo(MaxExec)

SpecOps == InitOps /\ [][ExecuteInstruction]_vars

(***************************************************************************)
(* Instructions that combine several effects.                              *)
(***************************************************************************)
\* The vector x after the effect selected by one opcode bit, if the bit is set in o.
Selected(o, bit, after, x) == IF HasBit(o, bit) THEN after ELSE x

\* The vector a after the effects selected in opcode o with operand b, applied in the
\* order add, rotate right, rotate left, upward source, downward source, divide.
InOrder(a, b, o) ==
  LET x1 == Selected(o, ADD, AddOp(a, b, LEDS_NUM), a)
      x2 == Selected(o, RSHIFT, RShiftOp(x1), x1)
      x3 == Selected(o, LSHIFT, LShiftOp(x2), x2)
      x4 == Selected(o, USOURCE, USourceOp(x3, b), x3)
      x5 == Selected(o, DSOURCE, DSourceOp(x4, b), x4)
  IN  Selected(o, DIV, DivOp(x5, b, LEDS_NUM), x5)

\* C26: executing an instruction whose opcode is not LOAD leaves in the matrix vector
\* the result of applying, to the vector before the execution, exactly the effects
\* selected by the opcode bits in the order add, rotate right, rotate left, upward
\* source, downward source, divide; the repeat bookkeeping comes after them and does
\* not touch the vector: it arms the counter or marks the step executed.
C26_EffectsInFixedOrder ==
  (op = "exec" /\ hist.exec.ins.u8AnimationOpcode # LOAD) =>
    LET ins == hist.exec.ins
    IN  /\ gau8LEDBrightness = InOrder(hist.exec.base, ins.au8Brightness,
                                       ins.u8AnimationOpcode)
        /\ IF HasBit(ins.u8AnimationOpcode, REPEAT) /\ hist.exec.count <= ins.u8AnimationOperand
           THEN u8LastState = NO_STATE
           ELSE u8LastState = u8AnimationState

\* An instruction with all six effects and the repeat bit was executed and changed the
\* vector.
C26_Witness ==
  /\ op = "exec"
  /\ hist.exec.ins.u8AnimationOpcode = ADD + RSHIFT + LSHIFT + USOURCE + DSOURCE + DIV + REPEAT
  /\ gau8LEDBrightness # hist.exec.base
  /\ hist.exec.count = 2

(***************************************************************************)
(* The add effect.                                                         *)
(***************************************************************************)
\* C27: the add effect maps an element v in [0,15] with signed 8-bit delta d to v+d
\* when 0 <= v+d <= 15 and to 0 otherwise: a sum above 15 and a sum below 0 both give
\* 0, never 15.
C27_AddWrapsToZero ==
  (op = "exec" /\ hist.exec.ins.u8AnimationOpcode = ADD) =>
    \A i \in 1..LEDS_NUM :
      LET v == hist.exec.base[i]
          d == I8(hist.exec.ins.au8Brightness[i])
      IN  /\ v \in 0..15
          /\ d \in -128..127
          /\ gau8LEDBrightness[i] = IF 0 <= v + d /\ v + d <= 15 THEN v + d ELSE 0

\* One addition in which an element stayed in range, one went above 15 and one below 0.
C27_Witness ==
  /\ op = "exec"
  /\ hist.exec.ins.u8AnimationOpcode = ADD
  /\ \E i \in 1..LEDS_NUM :
       /\ hist.exec.base[i] + I8(hist.exec.ins.au8Brightness[i]) \in 1..15
       /\ gau8LEDBrightness[i] # hist.exec.base[i]
  /\ \E i \in 1..LEDS_NUM :
       /\ hist.exec.base[i] + I8(hist.exec.ins.au8Brightness[i]) > 15
       /\ gau8LEDBrightness[i] = 0
  /\ \E i \in 1..LEDS_NUM :
       /\ hist.exec.base[i] + I8(hist.exec.ins.au8Brightness[i]) < 0
       /\ gau8LEDBrightness[i] = 0

(***************************************************************************)
(* The rotations.                                                          *)
(***************************************************************************)
\* Element i of vector x is element (i + by) mod LEDS_NUM of vector y, for every i.
RotatedBy(x, y, by) ==
  \A i \in 0..(LEDS_NUM - 1) : At(y, (i + by) % LEDS_NUM) = At(x, i)

\* C28: rotate right moves element i to position (i+1) mod 12, rotate left moves it to
\* (i-1) mod 12; rotate right followed by rotate left is the identity, and after 12
\* rotations in one direction the vector is the original one (after c of them every
\* element is c positions away).
C28_RotationsArePermutations ==
  op = "exec" =>
    LET o == hist.exec.ins.u8AnimationOpcode
        c == hist.exec.count
    IN  /\ o = RSHIFT => RotatedBy(hist.exec.base, gau8LEDBrightness, 1)
        /\ o = LSHIFT => RotatedBy(hist.exec.base, gau8LEDBrightness, LEDS_NUM - 1)
        /\ o = RSHIFT + LSHIFT => gau8LEDBrightness = hist.exec.base
        /\ o = RSHIFT + REPEAT =>
             /\ RotatedBy(hist.exec.base, gau8LEDBrightness, 1)
             /\ RotatedBy(hist.prev.base, gau8LEDBrightness, c % LEDS_NUM)
             /\ c = LEDS_NUM => gau8LEDBrightness = hist.prev.base
        /\ o = LSHIFT + REPEAT =>
             /\ RotatedBy(hist.exec.base, gau8LEDBrightness, LEDS_NUM - 1)
             /\ RotatedBy(gau8LEDBrightness, hist.prev.base, c % LEDS_NUM)
             /\ c = LEDS_NUM => gau8LEDBrightness = hist.prev.base

\* A vector of 12 different values was rotated right 12 times.
C28_Witness ==
  /\ op = "exec"
  /\ hist.exec.ins.u8AnimationOpcode = RSHIFT + REPEAT
  /\ hist.exec.count = LEDS_NUM
  /\ hist.exec.base # hist.prev.base
  /\ \A i, j \in 1..LEDS_NUM : i # j => hist.prev.base[i] # hist.prev.base[j]

(***************************************************************************)
(* The source effects.                                                     *)
(***************************************************************************)
\* x limited to the brightness range.
Clamp(x) == IF x < 0 THEN 0 ELSE IF x > 15 THEN 15 ELSE x

\* Sum of the elements lo..hi (0-based) of the vector x.
RECURSIVE SumOver(_, _, _)
SumOver(x, lo, hi) == IF lo > hi THEN 0 ELSE At(x, lo) + SumOver(x, lo + 1, hi)

\* The signed deltas of an operand vector.
Deltas(b) == [i \in 1..LEDS_NUM |-> I8(b[i])]

\* One half of the matrix, from its first element src to its terminal element term
\* (step +1 or -1 from src towards term), before and after a source effect with
\* deltas d: every element ends in range; the first element takes only its own delta;
\* its excess goes to the next element towards term, which then takes its own delta;
\* and the sum of the half changes by the sum of the deltas, except for what the
\* terminal element drops when it saturates.
HalfCarries(before, d, after, src, term) ==
  LET lo    == IF src < term THEN src ELSE term
      hi    == IF src < term THEN term ELSE src
      next  == IF src < term THEN src + 1 ELSE src - 1
      first == At(before, src) + At(d, src)
      total == SumOver(before, lo, hi) + SumOver(d, lo, hi)
      sum   == SumOver(after, lo, hi)
  IN  /\ \A i \in lo..hi : At(after, i) \in 0..15
      /\ At(after, src) = Clamp(first)
      /\ next # term =>
           At(after, next) = Clamp(Clamp(At(before, next) + (first - Clamp(first))) + At(d, next))
      /\ At(after, term) \in 1..14 => sum = total
      /\ At(after, term) = 15 => sum <= total
      /\ At(after, term) = 0 => sum >= total

\* C29: for deltas in [-15,15] and a vector in [0,15]^12, the upward source passes the
\* excess of each element towards the pivot (0 -> 5 in the left half, 11 -> 6 in the
\* right half) and the downward source away from it (5 -> 0 and 6 -> 11); the sum of a
\* half changes by the sum of its deltas unless its terminal element saturates, and
\* every element ends in [0,15].
C29_SourcesCarryAndConserve ==
  op = "exec" =>
    LET o == hist.exec.ins.u8AnimationOpcode
        d == Deltas(hist.exec.ins.au8Brightness)
    IN  /\ o = USOURCE =>
             /\ HalfCarries(hist.exec.base, d, gau8LEDBrightness, 0, RIGHT_LEDS_START - 1)
             /\ HalfCarries(hist.exec.base, d, gau8LEDBrightness, LEDS_NUM - 1, RIGHT_LEDS_START)
        /\ o = DSOURCE =>
             /\ HalfCarries(hist.exec.base, d, gau8LEDBrightness, RIGHT_LEDS_START - 1, 0)
             /\ HalfCarries(hist.exec.base, d, gau8LEDBrightness, RIGHT_LEDS_START, LEDS_NUM - 1)

\* An upward source in which element 0 overflowed, its excess reached element 1, and
\* the terminal of the right half saturated and dropped part of the sum.
C29_Witness ==
  /\ op = "exec"
  /\ hist.exec.ins.u8AnimationOpcode = USOURCE
  /\ At(hist.exec.base, 0) + I8(At(hist.exec.ins.au8Brightness, 0)) > 15
  /\ At(gau8LEDBrightness, 1) >
       At(hist.exec.base, 1) + I8(At(hist.exec.ins.au8Brightness, 1))
  /\ At(gau8LEDBrightness, 1) < 15
  /\ SumOver(gau8LEDBrightness, RIGHT_LEDS_START, LEDS_NUM - 1) <
       SumOver(hist.exec.base, RIGHT_LEDS_START, LEDS_NUM - 1)
       + SumOver(Deltas(hist.exec.ins.au8Brightness), RIGHT_LEDS_START, LEDS_NUM - 1)

(***************************************************************************)
(* The millisecond clock wrapping from 65535 to 0 while an animation runs, *)
(* with the main loop up to MaxGap milliseconds late around the wrap.      *)
(***************************************************************************)
\* The animation running when the clock wraps (gasDisco).
WrapIndices == {2}

\* Largest number of milliseconds between two Animation_Cycle calls.
MaxGap == 3

\* The main loop may be late from this clock value on, until the end of the run.
LateFrom == 65530

\* The run ends this many milliseconds after the wrap.
MaxWrapMs == 6

InitWrap ==
  /\ \E b \in WrapIndices : Boot(ErasedArena, b, EEPROM_BASEADDRESS) /\ MainInit(0)
  /\ hist = HistInit

\* The millisecond interrupt (gu16TimerMS++, 16 bits), also while Animation_Cycle has
\* not yet caught up with the clock.
Util_InterruptLate ==
  /\ \/ gu16TimerMS = gu16LastCall
     \/ /\ U16(gu16TimerMS - gu16LastCall) < MaxGap
        /\ (gu16TimerMS >= LateFrom \/ (hist.nLoops > 0 /\ gu16TimerMS < MaxWrapMs))
  /\ ~(hist.nLoops > 0 /\ gu16TimerMS = MaxWrapMs)
  /\ gu16TimerMS' = U16(gu16TimerMS + 1)
  /\ op' = "tick"
  /\ arg' = 0
  /\ hist' = [hist EXCEPT !.late = IF gu16TimerMS = gu16LastCall THEN 1 ELSE @ + 1,
                          !.midRepeat = FALSE, !.preIndex = u8AnimationIndex,
                          !.twice = FALSE]
  /\ UNCHANGED <<engine, locals, persist>>
  /\ UNCHANGED <<stepper, driver, gu16SynchronizedTimer, mainloop>>

SpecWrap == InitWrap /\ [][Util_InterruptLate \/ Animation_Cycle]_vars

\* C30: an Animation_Cycle call made after the clock has moved advances both channel
\* clocks by the number of milliseconds that really elapsed since the last such call,
\* modulo 2^16, also when the millisecond clock wrapped from 65535 to 0 in between;
\* the step lookups run on the advanced clocks (the accent one on 0 after a restart).
C30_ClocksAdvanceByElapsed ==
  [][(op' = "cycle" /\ gu16TimerMS # gu16LastCall) =>
      /\ hist'.elapsed = hist.late
      /\ hist'.preN = (gu16NormalTimer + hist.late) % 65536
      /\ hist'.preR = IF hist'.nLoops = hist.nLoops
                      THEN (gu16RGBTimer + hist.late) % 65536
                      ELSE 0
      /\ gu16LastCall' = gu16TimerMS]_vars

\* A call made 2 ms after the previous one, with the wrap in between.
C30_Witness ==
  /\ op = "cycle"
  /\ hist.elapsed = 2
  /\ hist.late = 2
  /\ gu16LastCall = 0
  /\ hist.nLoops > 0
  /\ hist.preN = hist.clkN
  /\ hist.clkN > 2

(***************************************************************************)
(* Blank memory and the checksum.                                          *)
(***************************************************************************)
SlotZero(mem, s) ==
  \A i \in 0..(SIZEOF_PERSIST - 1) : IAP_ReadByte(mem, SlotAddress(s) + i) = 0

\* The slots of the programmed part of the arena and the first slot beyond it (every
\* slot beyond reads like that one).
SlotsInUse(mem) == {s \in 0..(NumSlots - 1) : SIZEOF_PERSIST * s <= Len(mem)}

\* C32: a fully erased slot (0xFF, 0xFF, 0xFF) and an all-zero slot (0, 0, 0) both fail
\* the checksum comparison of SearchForLatestSave, so Persist_Init never takes blank
\* memory for a saved record: on an arena that holds only blank slots it returns the
\* defaults.
C32_BlankSlotsFailChecksum ==
  /\ Util_CRC16(<<255>>) # 255 * 256 + 255
  /\ Util_CRC16(<<0>>) # 0
  /\ \A s \in SlotsInUse(eeprom) :
       (SlotErased(eeprom, s) \/ SlotZero(eeprom, s)) => ~SlotValid(eeprom, s)
  /\ (op = "boot" /\ \A s \in SlotsInUse(eeprom) : SlotErased(eeprom, s) \/ SlotZero(eeprom, s))
       => /\ u8AnimationIndex = 0
          /\ gpsNextSaveSlot = EEPROM_BASEADDRESS

\* Persist_Init has run on an arena whose first three slots are all-zero and whose
\* other slots are erased.
C32_Witness ==
  /\ op = "boot"
  /\ hist.nBoots > 0
  /\ Len(eeprom) = 3 * SIZEOF_PERSIST
  /\ \A s \in 0..2 : SlotZero(eeprom, s)
  /\ SlotErased(eeprom, 3)
  /\ u8AnimationIndex = 0
  /\ gpsNextSaveSlot = EEPROM_BASEADDRESS

(***************************************************************************)
(* The next-write position.                                                *)
(***************************************************************************)
\* C36: after any number of Persist_Save calls, also more than the arena has slots, the
\* next-write position is the address of a slot that lies wholly inside the arena.
C36_NextWriteInsideArena ==
  (op = "save") => \E s \in 0..(NumSlots - 1) : gpsNextSaveSlot = SlotAddress(s)

\* C37: for every arena content, when Persist_Init returns the next-write position is
\* the address of a slot of the arena and that slot is fully erased.
C37_InitCursorOnErasedSlot ==
  (op = "boot") =>
    \E s \in 0..(NumSlots - 1) :
      /\ gpsNextSaveSlot = SlotAddress(s)
      /\ SlotErased(eeprom, s)

(***************************************************************************)
(* The order in which the matrix steps are executed.                       *)
(***************************************************************************)
\* Executions a step needs before it is marked executed.
ExecutionsOf(ins) ==
  IF HasBit(ins.u8AnimationOpcode, REPEAT) THEN ins.u8AnimationOperand + 1 ELSE 1

\* C33: with Animation_Cycle called in every millisecond, for every catalog animation
\* the matrix channel executes its steps in the order 0, 1, ..., len-1, 0, ...: the
\* first step executed is step 0, a step is first executed only after the step before
\* it was marked executed, no step is skipped or executed again by a repeat rewind, and
\* a Repeat step is executed operand+1 times in a row (any other step once).
C33_StepsInSequenceOrder ==
  [][(op' = "cycle" /\ hist'.exec # hist.exec) =>
      LET e == hist.exec
          f == hist'.exec
          len == AnimationAt(u8AnimationIndex').u8AnimationLengthNormal
      IN  /\ (f.count = 1 /\ e.step = NO_STATE) => f.step = 0
          /\ (f.count = 1 /\ e.step # NO_STATE) =>
               /\ e.done
               /\ f.step = (e.step + 1) % len
          /\ f.done => f.count = ExecutionsOf(f.ins)
          /\ ~f.done => f.count < ExecutionsOf(f.ins)]_vars

\* The last step of a sequence has been executed after a Repeat step that took more
\* than two executions, and the sequence has restarted with step 0.
C33_Witness ==
  /\ op = "cycle"
  /\ hist.nLoops = 1
  /\ hist.nSets = 0
  /\ hist.exec.step = 0
  /\ hist.exec.count = 1
  /\ hist.prev.step = AnimationAt(u8AnimationIndex).u8AnimationLengthNormal - 1
  /\ hist.prev.step > 0
  /\ HasBit(hist.prev.ins.u8AnimationOpcode, REPEAT)
  /\ hist.prev.count > 2

(***************************************************************************)
(* A Repeat step with any operand: the instruction is executed each time   *)
(* its step is resolved, until it is marked executed.                      *)
(***************************************************************************)
\* Executions followed for one instruction.
MaxRepeatExec == 257

\* Opcodes of the Repeat steps tried.
RepeatOpcodes == {REPEAT + ADD, REPEAT + RSHIFT}

\* A Repeat step of 50 ms with every operand byte.
RepeatInputs ==
  { [a |-> [i \in 1..LEDS_NUM |-> i % 16],
     ins |-> Instr(50, [i \in 1..LEDS_NUM |-> 1], o, n)] : o \in RepeatOpcodes, n \in 0..255 }

InitRepeat == InitOpsFrom(RepeatInputs)

SpecRepeat == InitRepeat /\ [][ExecuteUpTo(MaxRepeatExec)]_vars

\* The step has been marked executed.
MarkedExecuted == u8LastState = u8AnimationState

\* C34: for every operand 0..255, a step with the Repeat bit is marked executed after
\* exactly operand+1 executions: not before, and the execution number operand+1 marks
\* it (operand 0: the first execution).
C34_RepeatEndsAfterOperandPlusOne ==
  /\ MarkedExecuted => hist.exec.count = hist.exec.ins.u8AnimationOperand + 1
  /\ hist.exec.count >= hist.exec.ins.u8AnimationOperand + 1 => MarkedExecuted

\* The same for the operands 1..255.
NonZeroOperandEndsAfterOperandPlusOne ==
  hist.exec.ins.u8AnimationOperand # 0 => C34_RepeatEndsAfterOperandPlusOne

\* With operand 0 the step is never marked executed.
OperandZeroNeverMarked ==
  hist.exec.ins.u8AnimationOperand = 0 => ~MarkedExecuted /\ u8RepetitionCounter = 0

(***************************************************************************)
(* The catalog of the firmware/ build behind Animation_Set.                *)
(***************************************************************************)
\* The selected element of gasAnimations.
SelectedSync == gasAnimationsSync[u8AnimationIndex + 1]

\* C35: every index that Animation_Set accepts designates an initialised element of
\* gasAnimations with a non-empty instruction sequence, and the step the first
\* Animation_Cycle after the selection fetches lies inside that sequence.
C35_AcceptedIndexHasInstructions ==
  /\ u8AnimationIndex < NUM_ANIMATIONS_SYNC
  /\ SelectedSync.u8AnimationLength > 0
  /\ (op = "cycle" /\ hist.msAfterSet > 0) => u8AnimationState < SelectedSync.u8AnimationLength

\* The indices with an initialiser keep the property.
InitialisedIndexHasInstructions ==
  u8AnimationIndex < 8 =>
    /\ SelectedSync.u8AnimationLength > 0
    /\ (op = "cycle" /\ hist.msAfterSet > 0) => u8AnimationState < SelectedSync.u8AnimationLength

\* An index of an initialised element was selected and its first step was fetched.
InitialisedIndexFetched ==
  /\ op = "cycle"
  /\ hist.msAfterSet > 0
  /\ u8AnimationIndex = 5
  /\ u8LastState = 0

(***************************************************************************)
(* firmware/src/util.c: the foreground reads the 16-bit millisecond        *)
(* counter byte by byte (8-bit core) while the timer interrupt counts.     *)
(***************************************************************************)
\* Milliseconds followed: the counter passes the carry from 0x00FF to 0x0100.
MaxReadMs == 258

\* Timer interrupts taken while one call of Util_GetTimerMs is in progress.
MaxIrqInCall == 1

LowByte(v) == v % 256

HighByte(v) == v \div 256

\* Variant of DISABLE_IT that leaves the interrupts enabled.
DISABLE_IT_Skipped == EA' = EA

\* util.h: #define DISABLE_IT  EA = 0;NOP();
DISABLE_IT == EA' = 0

\* util.h: #define ENABLE_IT  EA = 1;NOP();
ENABLE_IT == EA' = 1

\* What a step of the foreground or of the interrupt leaves alone.
ReadFrame ==
  UNCHANGED <<engine, locals, persist, hist, stepper, driver, gu16SynchronizedTimer,
              geButtonState, gu16ButtonPressTimer, u8CurrentAnimation, bPressedLong,
              u32UptimeCounter, u16LastCall, BUTTON_PIN, u16LastPushMs, bitPairing,
              bitGotPartnerID>>

\* Util_Interrupt of the firmware/ build, called by timer0_isr every 100 us: taken when
\* EA is set, and once more right after the instruction that clears EA (the request
\* that arrived during that instruction is served while the NOP executes).
Util_InterruptSync ==
  /\ EA = 1 \/ mpc = "nop"
  /\ gu16TimerMS < MaxReadMs
  /\ mpc # "top" => watch.irqInCall < MaxIrqInCall
  /\ gu8Prescaler' = IF U8(gu8Prescaler + 1) >= 10 THEN 0 ELSE U8(gu8Prescaler + 1)
  /\ gu16TimerMS' = IF U8(gu8Prescaler + 1) >= 10 THEN U16(gu16TimerMS + 1) ELSE gu16TimerMS
  /\ watch' = [watch EXCEPT !.irqInCall = IF mpc = "top" THEN 0 ELSE @ + 1]
  /\ op' = IF mpc = "top" THEN "tick" ELSE op
  /\ arg' = IF mpc = "top" THEN 0 ELSE arg
  /\ UNCHANGED <<mpc, EA, u16Ret>>
  /\ ReadFrame

\* The foreground calls Util_GetTimerMs.
GetTimer_Call ==
  /\ mpc = "top"
  /\ mpc' = "disable"
  /\ watch' = [watch EXCEPT !.atCall = gu16TimerMS, !.irqInCall = 0]
  /\ op' = "call"
  /\ arg' = 0
  /\ UNCHANGED <<gu16TimerMS, gu8Prescaler, EA, u16Ret>>
  /\ ReadFrame

\* DISABLE_IT: EA = 0;
GetTimer_Disable ==
  /\ mpc = "disable"
  /\ DISABLE_IT
  /\ mpc' = "nop"
  /\ UNCHANGED <<gu16TimerMS, gu8Prescaler, u16Ret, watch, op, arg>>
  /\ ReadFrame

\* DISABLE_IT: NOP();
GetTimer_Nop ==
  /\ mpc = "nop"
  /\ mpc' = "read"
  /\ UNCHANGED <<gu16TimerMS, gu8Prescaler, EA, u16Ret, watch, op, arg>>
  /\ ReadFrame

\* u16Ret = gu16TimerMS, first byte: the order of the two byte moves is the compiler's.
GetTimer_ReadFirst ==
  /\ mpc = "read"
  /\ \E first \in {"lo", "hi"} :
       /\ u16Ret' = IF first = "lo" THEN 256 * HighByte(u16Ret) + LowByte(gu16TimerMS)
                    ELSE 256 * HighByte(gu16TimerMS) + LowByte(u16Ret)
       /\ mpc' = IF first = "lo" THEN "readHi" ELSE "readLo"
  /\ UNCHANGED <<gu16TimerMS, gu8Prescaler, EA, watch, op, arg>>
  /\ ReadFrame

\* u16Ret = gu16TimerMS, second byte.
GetTimer_ReadSecond ==
  /\ mpc \in {"readLo", "readHi"}
  /\ u16Ret' = IF mpc = "readLo" THEN 256 * HighByte(u16Ret) + LowByte(gu16TimerMS)
               ELSE 256 * HighByte(gu16TimerMS) + LowByte(u16Ret)
  /\ mpc' = "enable"
  /\ UNCHANGED <<gu16TimerMS, gu8Prescaler, EA, watch, op, arg>>
  /\ ReadFrame

\* ENABLE_IT
GetTimer_Enable ==
  /\ mpc = "enable"
  /\ ENABLE_IT
  /\ mpc' = "return"
  /\ UNCHANGED <<gu16TimerMS, gu8Prescaler, u16Ret, watch, op, arg>>
  /\ ReadFrame

\* return u16Ret;
GetTimer_Return ==
  /\ mpc = "return"
  /\ mpc' = "top"
  /\ op' = "read"
  /\ arg' = u16Ret
  /\ u16Ret' = 0
  /\ watch' = [watch EXCEPT !.atCall = 0, !.irqInCall = 0]
  /\ UNCHANGED <<gu16TimerMS, gu8Prescaler, EA>>
  /\ ReadFrame

InitRead ==
  /\ Boot(ErasedArena, 0, EEPROM_BASEADDRESS) /\ MainInit(0)
  /\ hist = HistInit

NextRead ==
  \/ Util_InterruptSync
  \/ GetTimer_Call
  \/ GetTimer_Disable
  \/ GetTimer_Nop
  \/ GetTimer_ReadFirst
  \/ GetTimer_ReadSecond
  \/ GetTimer_Enable
  \/ GetTimer_Return

SpecRead == InitRead /\ [][NextRead]_vars

\* C31: with the timer interrupt firing at any point of the foreground, the value that
\* Util_GetTimerMs returns is a value the millisecond counter held during the call,
\* never a mix of the bytes of two successive counter values; at the end of the
\* critical section it is the counter's value.
C31_ReadIsNeverTorn ==
  /\ mpc = "enable" => u16Ret = gu16TimerMS
  /\ mpc = "return" => (watch.atCall <= u16Ret /\ u16Ret <= gu16TimerMS)
  /\ op = "read" => arg <= gu16TimerMS

\* A call that began at 255 ms returns 256: the interrupt that carried into the high
\* byte was taken during the call, before the critical section's read.
C31_Witness ==
  /\ mpc = "return"
  /\ watch.atCall = 255
  /\ watch.irqInCall = 1
  /\ gu16TimerMS = 256
  /\ u16Ret = 256

(***************************************************************************)
(* fw_py32/Src/main.c: the main loop, statement group by statement group,  *)
(* against the millisecond interrupt.                                      *)
(***************************************************************************)
\* Milliseconds followed after boot: past the first generated push and its debounce.
MaxMainMs == 5160

\* Uptimes (ms) at which the interrupt may fall inside the loop body instead of the wait.
MidTickTimes == {0, 1, 5099}

\* if( u32UptimeCounter >= 18000000u )
POWER_DOWN_MS == 18000000

\* U32: two 16-bit halves.
U32Of(n) == [hi |-> (n \div 65536) % 65536, lo |-> n % 65536]

\* u32 + d modulo 2^32, for -2^16 < d < 2^17.
Add32(u, d) ==
  [hi |-> (u.hi + ((u.lo + d) \div 65536)) % 65536, lo |-> (u.lo + d) % 65536]

AtLeast32(u, n) ==
  u.hi > n \div 65536 \/ (u.hi = n \div 65536 /\ u.lo >= n % 65536)

\* main(): the sum of the uptime update; `wrapped` is the outcome of the comparison
\* Util_GetTimerMs() < u16LastCall, `now` the clock read by the addition.
UptimeSum(uptime, last, wrapped, now) ==
  IF wrapped THEN Add32(uptime, 65535 - last + now + 1) ELSE Add32(uptime, now - last)

\* Variant of the switch without the debounce of a press: the button handler acts on the
\* level it samples.
ButtonSwitchNoDebounce(state, timer, pin, now) ==
  CASE state = "BUTTON_PRESSED" ->
         IF pin = 1
         THEN [state |-> "BUTTON_RELEASING", timer |-> U16(now + 50), act |-> "short"]
         ELSE IF now = timer
              THEN [state |-> "BUTTON_LONGPRESS", timer |-> timer, act |-> "long"]
              ELSE [state |-> state, timer |-> timer, act |-> "none"]
    [] state = "BUTTON_LONGPRESS" ->
         IF pin = 1
         THEN [state |-> "BUTTON_RELEASING", timer |-> U16(now + 50), act |-> "none"]
         ELSE [state |-> state, timer |-> timer, act |-> "none"]
    [] state = "BUTTON_RELEASING" ->
         IF now = timer
         THEN IF pin = 1
              THEN [state |-> "BUTTON_UNPRESSED", timer |-> U16(now + 2000), act |-> "released"]
              ELSE [state |-> state, timer |-> U16(now + 50), act |-> "none"]
         ELSE [state |-> state, timer |-> timer, act |-> "none"]
    [] OTHER ->
         IF pin = 0
         THEN [state |-> "BUTTON_PRESSED", timer |-> U16(now + 2050), act |-> "debounced"]
         ELSE [state |-> state, timer |-> timer, act |-> "none"]

\* main(): the switch on geButtonState; `now` is Util_GetTimerMs().
ButtonSwitch(state, timer, pin, now) ==
  CASE state = "BUTTON_BOUNCING" ->
         IF now = timer
         THEN IF pin = 0
              THEN [state |-> "BUTTON_PRESSED", timer |-> U16(now + 2000), act |-> "debounced"]
              ELSE [state |-> "BUTTON_UNPRESSED", timer |-> timer, act |-> "none"]
         ELSE [state |-> state, timer |-> timer, act |-> "none"]
    [] state = "BUTTON_PRESSED" ->
         IF pin = 1
         THEN [state |-> "BUTTON_RELEASING", timer |-> U16(now + 50), act |-> "short"]
         ELSE IF now = timer
              THEN [state |-> "BUTTON_LONGPRESS", timer |-> timer, act |-> "long"]
              ELSE [state |-> state, timer |-> timer, act |-> "none"]
    [] state = "BUTTON_LONGPRESS" ->
         IF pin = 1
         THEN [state |-> "BUTTON_RELEASING", timer |-> U16(now + 50), act |-> "none"]
         ELSE [state |-> state, timer |-> timer, act |-> "none"]
    [] state = "BUTTON_RELEASING" ->
         IF now = timer
         THEN IF pin = 1
              THEN [state |-> "BUTTON_UNPRESSED", timer |-> U16(now + 2000), act |-> "released"]
              ELSE [state |-> state, timer |-> U16(now + 50), act |-> "none"]
         ELSE [state |-> state, timer |-> timer, act |-> "none"]
    [] OTHER ->
         IF pin = 0
         THEN [state |-> "BUTTON_BOUNCING", timer |-> U16(now + 50), act |-> "none"]
         ELSE [state |-> state, timer |-> timer, act |-> "none"]

\* u8CurrentAnimation++; if( u8CurrentAnimation >= NUM_ANIMATIONS-1u ) u8CurrentAnimation = 0u;
NextAnimation(current, n) == IF U8(current + 1) >= n - 1 THEN 0 ELSE U8(current + 1)

\* The level of the button input changes: a press begins or ends.
WatchPin(w, pin, state, current) ==
  IF pin = 0
  THEN [w EXCEPT !.edges = @ + 1, !.presses = @ + 1, !.pressedAt = w.elapsed,
                 !.pressedIn = state, !.current = current, !.heldMs = 0, !.sets = 0,
                 !.saves = 0, !.order = <<>>]
  ELSE [w EXCEPT !.edges = @ + 1, !.heldMs = w.elapsed - w.pressedAt]

\* The loop is in its wait for the next interrupt.
AtWait == mpc = "cycle" /\ op = "cycle"

\* The millisecond interrupt: it ends the wait of the main loop, or falls inside the
\* loop body (at most once per pass, at the chosen uptimes).
MainTick ==
  /\ mpc # "off"
  /\ watch.elapsed < MaxMainMs
  /\ AtWait \/ (~watch.tickInPass /\ watch.elapsed \in MidTickTimes)
  /\ gu16TimerMS' = U16(gu16TimerMS + 1)
  /\ mpc' = IF AtWait THEN "top" ELSE mpc
  /\ watch' = [watch EXCEPT !.elapsed = @ + 1, !.tickInPass = ~AtWait]
  /\ op' = "tick"
  /\ arg' = 0
  /\ UNCHANGED <<engine, locals, persist, hist, stepper, driver, gu16SynchronizedTimer,
                 geButtonState, gu16ButtonPressTimer, u8CurrentAnimation, bPressedLong,
                 u32UptimeCounter, u16LastCall, BUTTON_PIN, u16LastPushMs, bitPairing,
                 bitGotPartnerID, EA, gu8Prescaler, u16Ret>>

\* What a statement group of main() leaves alone besides its own variables.
MainFrame ==
  UNCHANGED <<gu16TimerMS, locals, hist, stepper, driver, gu16SynchronizedTimer, bitPairing,
              bitGotPartnerID, EA, gu8Prescaler, u16Ret>>

\* main(): the generated pushes (100 ms every 5 s) that stand in for the button input.
MainGeneratedPush ==
  /\ mpc = "top"
  /\ LET now == Util_GetTimerMs
         pin == IF now > u16LastPushMs
                THEN (IF now < u16LastPushMs + 100 THEN 0 ELSE 1)
                ELSE BUTTON_PIN
     IN  /\ BUTTON_PIN' = pin
         /\ u16LastPushMs' = IF now > u16LastPushMs /\ ~(now < u16LastPushMs + 100)
                             THEN U16(now + 5000) ELSE u16LastPushMs
         /\ watch' = IF pin # BUTTON_PIN
                     THEN [WatchPin(watch, pin, geButtonState, u8CurrentAnimation) EXCEPT !.tickInPass = FALSE]
                     ELSE [watch EXCEPT !.tickInPass = FALSE]
  /\ mpc' = "cmp"
  /\ op' = "push"
  /\ arg' = 0
  /\ UNCHANGED <<engine, persist, geButtonState, gu16ButtonPressTimer, u8CurrentAnimation,
                 bPressedLong, u32UptimeCounter, u16LastCall>>
  /\ MainFrame

\* if( Util_GetTimerMs() < u16LastCall )
MainUptimeCompare ==
  /\ mpc = "cmp"
  /\ mpc' = IF Util_GetTimerMs < u16LastCall THEN "addWrap" ELSE "addPlain"
  /\ op' = "compare"
  /\ arg' = 0
  /\ UNCHANGED <<engine, persist, geButtonState, gu16ButtonPressTimer, u8CurrentAnimation,
                 bPressedLong, u32UptimeCounter, u16LastCall, BUTTON_PIN, u16LastPushMs,
                 watch>>
  /\ MainFrame

\* u32UptimeCounter += ...
MainUptimeAdd ==
  /\ mpc \in {"addWrap", "addPlain"}
  /\ u32UptimeCounter' = UptimeSum(u32UptimeCounter, u16LastCall, mpc = "addWrap",
                                   Util_GetTimerMs)
  /\ mpc' = "store"
  /\ op' = "add"
  /\ arg' = 0
  /\ UNCHANGED <<engine, persist, geButtonState, gu16ButtonPressTimer, u8CurrentAnimation,
                 bPressedLong, u16LastCall, BUTTON_PIN, u16LastPushMs, watch>>
  /\ MainFrame

\* u16LastCall = Util_GetTimerMs(); if( u32UptimeCounter >= 18000000u ) PowerDown();
MainUptimeStore ==
  /\ mpc = "store"
  /\ u16LastCall' = Util_GetTimerMs
  /\ watch' = [watch EXCEPT !.atStore = watch.elapsed,
                            !.off = AtLeast32(u32UptimeCounter, POWER_DOWN_MS)]
  /\ mpc' = IF AtLeast32(u32UptimeCounter, POWER_DOWN_MS) THEN "off" ELSE "button"
  /\ op' = "store"
  /\ arg' = 0
  /\ UNCHANGED <<engine, persist, geButtonState, gu16ButtonPressTimer, u8CurrentAnimation,
                 bPressedLong, u32UptimeCounter, BUTTON_PIN, u16LastPushMs>>
  /\ MainFrame

\* switch( geButtonState ) of fw_py32/Src/main.c with the actions of its branches.
MainButton ==
  /\ mpc = "button"
  /\ LET r    == ButtonSwitch(geButtonState, gu16ButtonPressTimer, BUTTON_PIN, Util_GetTimerMs)
         next == NextAnimation(u8CurrentAnimation, NUM_ANIMATIONS)
     IN  /\ geButtonState' = r.state
         /\ gu16ButtonPressTimer' = r.timer
         /\ CASE r.act = "short" ->
                   /\ u8CurrentAnimation' = next
                   /\ Animation_Set(next)
                   /\ LET s == Persist_Save(eeprom, u8AnimationIndex', gpsNextSaveSlot)
                      IN  /\ eeprom' = s.eeprom
                          /\ gpsNextSaveSlot' = s.gpsNextSaveSlot
                   /\ watch' = [watch EXCEPT !.sets = @ + 1, !.saves = @ + 1, !.setArg = next,
                                             !.order = @ \o <<"set", "save">>,
                                             !.saved = u8AnimationIndex', !.selected = next]
                   /\ UNCHANGED bPressedLong
                   /\ mpc' = "cycle"
              [] r.act = "long" ->
                   /\ u8CurrentAnimation' = NUM_ANIMATIONS - 1
                   /\ Animation_Set(NUM_ANIMATIONS - 1)
                   /\ bPressedLong' = TRUE
                   /\ watch' = [watch EXCEPT !.sets = @ + 1, !.setArg = NUM_ANIMATIONS - 1,
                                             !.order = @ \o <<"set">>]
                   /\ UNCHANGED persist
                   /\ mpc' = "cycle"
              [] OTHER ->
                   /\ mpc' = IF r.act = "released" /\ bPressedLong THEN "off" ELSE "cycle"
                   /\ UNCHANGED <<engine, persist, u8CurrentAnimation, bPressedLong, watch>>
         /\ op' = "button"
         /\ arg' = 0
  /\ UNCHANGED <<u32UptimeCounter, u16LastCall, BUTTON_PIN, u16LastPushMs>>
  /\ MainFrame

\* Animation_Cycle(); __WFI();
MainCycle ==
  /\ mpc = "cycle"
  /\ op # "cycle"
  /\ Animation_Cycle

InitMain ==
  /\ Boot(ErasedArena, 0, EEPROM_BASEADDRESS) /\ MainInit(0)
  /\ hist = HistInit

NextMain ==
  \/ MainTick
  \/ MainGeneratedPush
  \/ MainUptimeCompare
  \/ MainUptimeAdd
  \/ MainUptimeStore
  \/ MainButton
  \/ MainCycle

SpecMain == InitMain /\ [][NextMain]_vars

\* C39: with the millisecond interrupt falling between any two of the main loop's clock
\* reads, the uptime counter equals the number of milliseconds that really elapsed between
\* boot and the last update, and the power-down is entered only when 18,000,000 ms have
\* elapsed.
C39_UptimeIsElapsedTime ==
  /\ mpc \in {"button", "cycle", "top", "cmp", "off"} =>
        u32UptimeCounter = U32Of(watch.atStore)
  /\ watch.off => watch.elapsed >= POWER_DOWN_MS

\* The clock wraps between the comparison and the addition of the same pass (read
\* 65535, then 0) after one millisecond was lost: the sum is 2^32 - 1 and the
\* power-down follows 65.5 s after boot.
WrapRacePowersDown ==
  /\ UptimeSum(U32Of(65534), 65535, FALSE, 0) = [hi |-> 65535, lo |-> 65535]
  /\ AtLeast32(UptimeSum(U32Of(65534), 65535, FALSE, 0), POWER_DOWN_MS)
  /\ UptimeSum(U32Of(65535), 65535, FALSE, 0) = U32Of(0)
  /\ UptimeSum(U32Of(65535), 65535, TRUE, 0) = U32Of(65536)

(***************************************************************************)
(* firmware/src/main.c: the main loop with the push button and the radio   *)
(* as inputs.                                                              *)
(***************************************************************************)
\* Milliseconds followed after boot: past a long press and the release that follows it.
MaxSyncMs == 2160

\* Milliseconds followed when no press is in progress.
QuietMs == 520

\* Uptimes (ms) at which the user may press the button, and at which they may release it.
PushTimes == {10, 100}

ReleaseTimes == {60, 61, 400, 2060, 2061}

\* Level changes of the button input in a run.
MaxEdges == 4

\* Uptimes (ms) at which Radio_Receive may deliver a packet.
PacketTimes == {2070}

\* Packets delivered in a run.
MaxPackets == 1

\* What Radio_Receive delivers: a pairing request of a stranger or of the partner, an
\* animation change request of the partner for an index, or its acknowledgement.
Packets ==
  {[u8Type |-> "BROADCAST", partner |-> FALSE, request |-> FALSE, index |-> 0],
   [u8Type |-> "BROADCAST", partner |-> TRUE, request |-> FALSE, index |-> 0],
   [u8Type |-> "UNICAST", partner |-> TRUE, request |-> TRUE, index |-> 3],
   [u8Type |-> "UNICAST", partner |-> TRUE, request |-> FALSE, index |-> 3]}

\* What a statement group of firmware/ main() leaves alone besides its own variables.
SyncFrame ==
  UNCHANGED <<gu16TimerMS, gu16NormalTimer, gu16RGBTimer, gu16LastCall, u8LastStateRGB,
              u8RepetitionCounterRGB, gau8LEDBrightness, gau8RGBLEDs, locals, hist, stepper,
              driver, bPressedLong, u32UptimeCounter, u16LastCall, BUTTON_PIN, u16LastPushMs,
              EA, gu8Prescaler, u16Ret>>

\* Animation_Set is not called.
NoSetSync ==
  UNCHANGED <<u8AnimationIndex, gu16SynchronizedTimer, u8LastState, u8RepetitionCounter>>

\* A press is in progress or its consequences are pending.
Busy ==
  BUTTON_PIN = 0 \/ geButtonState # "BUTTON_UNPRESSED" \/ bitPairing = 1

\* Ten timer 0 interrupts: the millisecond counter advances and the idle mode ends.
MainTickSync ==
  /\ AtWait
  /\ watch.elapsed < (IF Busy THEN MaxSyncMs ELSE QuietMs)
  /\ gu16TimerMS' = U16(gu16TimerMS + 1)
  /\ mpc' = "top"
  /\ watch' = [watch EXCEPT !.elapsed = @ + 1]
  /\ op' = "tick"
  /\ arg' = 0
  /\ UNCHANGED <<engine, locals, persist, hist, stepper, driver, gu16SynchronizedTimer,
                 geButtonState, gu16ButtonPressTimer, u8CurrentAnimation, bPressedLong,
                 u32UptimeCounter, u16LastCall, BUTTON_PIN, u16LastPushMs, bitPairing,
                 bitGotPartnerID, EA, gu8Prescaler, u16Ret>>

\* The user presses or releases the button while the loop waits.
ButtonEdge ==
  /\ AtWait
  /\ watch.edges < MaxEdges
  /\ watch.elapsed \in (IF BUTTON_PIN = 1 THEN PushTimes ELSE ReleaseTimes)
  /\ BUTTON_PIN' = 1 - BUTTON_PIN
  /\ watch' = WatchPin(watch, 1 - BUTTON_PIN, geButtonState, u8CurrentAnimation)
  /\ UNCHANGED <<gu16TimerMS, engine, locals, persist, op, arg, hist, stepper, driver,
                 gu16SynchronizedTimer, mpc, geButtonState, gu16ButtonPressTimer,
                 u8CurrentAnimation, bPressedLong, u32UptimeCounter, u16LastCall,
                 u16LastPushMs, bitPairing, bitGotPartnerID, EA, gu8Prescaler, u16Ret>>

\* switch( geButtonState ) of firmware/src/main.c with the actions of its branches.
MainButtonSync ==
  /\ mpc = "top"
  /\ LET r    == ButtonSwitch(geButtonState, gu16ButtonPressTimer, BUTTON_PIN, Util_GetTimerMs)
         next == NextAnimation(u8CurrentAnimation, NUM_ANIMATIONS_SYNC)
     IN  /\ geButtonState' = r.state
         /\ gu16ButtonPressTimer' = r.timer
         /\ CASE r.act = "short" ->
                   /\ u8CurrentAnimation' = next
                   /\ Animation_SetSync(next)
                   /\ LET s == Persist_Save(eeprom, u8AnimationIndex', gpsNextSaveSlot)
                      IN  /\ eeprom' = s.eeprom
                          /\ gpsNextSaveSlot' = s.gpsNextSaveSlot
                   /\ watch' = [watch EXCEPT !.sets = @ + 1, !.saves = @ + 1, !.setArg = next,
                                             !.order = @ \o <<"set", "save">>,
                                             !.saved = u8AnimationIndex', !.selected = next]
                   /\ UNCHANGED <<bitPairing, bitGotPartnerID>>
              [] r.act = "long" ->
                   /\ bitPairing' = 1
                   /\ bitGotPartnerID' = 0
                   /\ Animation_SetSync(NUM_ANIMATIONS_SYNC - 1)
                   /\ watch' = [watch EXCEPT !.sets = @ + 1,
                                             !.setArg = NUM_ANIMATIONS_SYNC - 1,
                                             !.order = @ \o <<"set">>]
                   /\ UNCHANGED <<persist, u8CurrentAnimation, bitGotPartnerID>>
              [] OTHER ->
                   /\ bitPairing' = IF r.act = "debounced" THEN 0 ELSE bitPairing
                   /\ NoSetSync
                   /\ UNCHANGED <<persist, u8CurrentAnimation, bitGotPartnerID, watch>>
  /\ mpc' = "radio"
  /\ op' = "button"
  /\ arg' = 0
  /\ SyncFrame

\* The packets sent and Radio_Receive with the handling of the packet it delivers.
MainRadioSync ==
  /\ mpc = "radio"
  /\ \/ /\ NoSetSync
        /\ UNCHANGED <<persist, u8CurrentAnimation, bitPairing, bitGotPartnerID, watch>>
        /\ arg' = 0
     \/ /\ watch.packets < MaxPackets
        /\ watch.elapsed \in PacketTimes
        /\ \E sPacket \in Packets :
             CASE sPacket.u8Type = "BROADCAST" /\ bitGotPartnerID = 0 ->
                    /\ bitGotPartnerID' = 1
                    /\ bitPairing' = 0
                    /\ LET s == Persist_Save(eeprom, u8AnimationIndex, gpsNextSaveSlot)
                       IN  /\ eeprom' = s.eeprom
                           /\ gpsNextSaveSlot' = s.gpsNextSaveSlot
                    /\ Animation_SetSync(u8CurrentAnimation)
                    /\ watch' = [watch EXCEPT !.packets = @ + 1, !.saved = u8AnimationIndex,
                                              !.selected = u8CurrentAnimation]
                    /\ UNCHANGED u8CurrentAnimation
                    /\ arg' = 1
               [] sPacket.u8Type = "BROADCAST" /\ bitGotPartnerID = 1 ->
                    /\ bitPairing' = IF sPacket.partner THEN 0 ELSE bitPairing
                    /\ NoSetSync
                    /\ watch' = [watch EXCEPT !.packets = @ + 1]
                    /\ UNCHANGED <<persist, u8CurrentAnimation, bitGotPartnerID>>
                    /\ arg' = 2
               [] sPacket.u8Type = "UNICAST" /\ sPacket.request
                    /\ u8CurrentAnimation # sPacket.index ->
                    /\ u8CurrentAnimation' = sPacket.index
                    /\ Animation_SetSync(sPacket.index)
                    /\ LET s == Persist_Save(eeprom, u8AnimationIndex', gpsNextSaveSlot)
                       IN  /\ eeprom' = s.eeprom
                           /\ gpsNextSaveSlot' = s.gpsNextSaveSlot
                    /\ watch' = [watch EXCEPT !.packets = @ + 1, !.saved = u8AnimationIndex',
                                              !.selected = sPacket.index]
                    /\ UNCHANGED <<bitPairing, bitGotPartnerID>>
                    /\ arg' = 3
               [] OTHER ->
                    /\ NoSetSync
                    /\ watch' = [watch EXCEPT !.packets = @ + 1]
                    /\ UNCHANGED <<persist, u8CurrentAnimation, bitPairing, bitGotPartnerID>>
                    /\ arg' = 4
  /\ geButtonState' = geButtonState
  /\ gu16ButtonPressTimer' = gu16ButtonPressTimer
  /\ mpc' = "cycle"
  /\ op' = "radio"
  /\ SyncFrame

\* Animation_Cycle(); PCON |= 0x01u;
MainCycleSync ==
  /\ mpc = "cycle"
  /\ op # "cycle"
  /\ Animation_CycleSync

\* Boot on an erased arena, or on an arena that holds one record of the last index a
\* short press can select.
InitMainSync ==
  /\ \E mem \in {ErasedArena, Record(NUM_ANIMATIONS_SYNC - 2)} :
       LET loaded == Persist_Init(mem)
       IN  Boot(mem, loaded.u8AnimationIndex, loaded.gpsNextSaveSlot) /\ MainInit(loaded.u8AnimationIndex)
  /\ \E b \in 1..Len(GarbageSync) : hist = [HistInit EXCEPT !.build = b]

NextMainSync ==
  \/ MainTickSync
  \/ ButtonEdge
  \/ MainButtonSync
  \/ MainRadioSync
  \/ MainCycleSync

SpecMainSync == InitMainSync /\ [][NextMainSync]_vars

\* C38: every record stored by Persist_Save carries the index of the animation the
\* user selected (u8CurrentAnimation, at most NUM_ANIMATIONS - 2); the last index,
\* selected for the time of a long press or of the pairing, is never stored.
C38_SavedIndexIsSelected ==
  /\ watch.saved = watch.selected
  /\ watch.saved <= NUM_ANIMATIONS_SYNC - 2

\* The same property with the catalog size of the fw_py32 build.
SavedIndexIsSelectedPy32 ==
  /\ watch.saved = watch.selected
  /\ watch.saved <= NUM_ANIMATIONS - 2

\* The release of the last press was seen by a pass of the button handler.
ReleaseSeen ==
  /\ BUTTON_PIN = 1
  /\ watch.presses > 0
  /\ \/ watch.elapsed > watch.pressedAt + watch.heldMs + 1
     \/ (watch.elapsed = watch.pressedAt + watch.heldMs + 1 /\ mpc # "top")

\* The last press caused one Animation_Set, to the index after the one selected
\* before (0 after NUM_ANIMATIONS - 2), followed by one Persist_Save.
OneSetThenOneSave ==
  /\ watch.order = <<"set", "save">>
  /\ watch.setArg = NextAnimation(watch.current, NUM_ANIMATIONS_SYNC)
  /\ watch.setArg <= NUM_ANIMATIONS_SYNC - 2

PressWithinReleaseDebounceIgnored ==
  /\ ReleaseSeen
  /\ watch.pressedIn = "BUTTON_RELEASING"
  /\ watch.heldMs = 300
  /\ watch.order = <<>>
  /\ geButtonState = "BUTTON_UNPRESSED"

\* fw_py32: the generated push of 99 or 100 ms causes one Animation_Set followed by one
\* Persist_Save.
GeneratedPushOneSetOneSave ==
  (BUTTON_PIN = 1 /\ watch.presses > 0 /\ mpc = "cycle") =>
    /\ watch.order = <<"set", "save">>
    /\ watch.setArg = NextAnimation(watch.current, NUM_ANIMATIONS)
    /\ watch.heldMs \in 99..100
====
